---- MODULE Spec2Model ----
(***************************************************************************)
(* State-machine model of the Vertical Tabs beta helper's self-update      *)
(* path: the migration registry and its task runners                       *)
(* (services/migration.ts), the artifact downloader, the integrity check,  *)
(* the atomic install and the host reload (services/upgrade.ts), and the   *)
(* retry helper (common/utils.ts).                                         *)
(*                                                                         *)
(* One upgrade is one sequential async task; every await is one step of    *)
(* the model and `pc` is the task's position.  Every host call that can    *)
(* reject (a filesystem call, a remote call, a migration task, a plugin    *)
(* lifecycle call) either succeeds or fails, chosen nondeterministically.  *)
(***************************************************************************)
EXTENDS Integers, Sequences, FiniteSets, TLC

VARIABLES
    pc,          \* position of the upgrade task
    registry,    \* MigrationRegistry.migrations: sequence of qualifiers
    migrationsLoaded, \* MigrationRegistry.migrationsLoaded
    fromV, toV,  \* the version transition handed to the task runners
    manual,      \* upgrade(..., manual)
    matched,     \* result of queryMigrations: registry positions, in order
    taskIdx,     \* loop index of the running for-of over `matched`
    running,     \* loop indices whose task was called and has not settled
    taskFailed,  \* the tasks that rejected, by phase and index (history)
    preRan,      \* registry positions whose preInstallationTasks was invoked
    postRan,     \* registry positions whose postInstallationTasks was invoked
    attempt,     \* retryWithBackoff: attempt
    lastError,   \* retryWithBackoff: lastError (the classified kind)
    artifact,    \* DownloadBuildSuccess handed to verifyAndUpgrade
    target,      \* plugins/vertical-tabs
    staging,     \* plugins/<randomString(10)>
    backup,      \* plugins/vertical-tabs.backup.<Date.now()>
    origTarget,  \* target as it was when verifyAndUpgrade was entered
    hasBackup,   \* verifyAndUpgrade: hasBackup
    entryIdx,    \* verifyAndUpgrade: position in Object.entries(zip.files)
    thrown,      \* the exception travelling to verifyAndUpgrade's outer catch
    fsOps,       \* filesystem mutations attempted so far (history)
    fsFailed,    \* filesystem mutations that rejected (history)
    stages,      \* stages of upgrade() that were started (history)
    pluginEnabled,  \* app.plugins.getPlugin(VERTICAL_TABS_ID) is loaded
    manifestOf,  \* content of the manifest the host has loaded
    errors,      \* errors surfaced to the caller of the upgrade, in order
    task,        \* position of each caller of upgradeToVersion
    btnDisabled, \* the rendered install buttons: button.setDisabled
    autoUpdate,  \* settings.autoUpdate
    updateCheckInterval, \* the hourly interval is registered
    currentVersion, \* getCurrentVersion(): the installed build's tag
    showUpdateNotification, \* settings.showUpdateNotification
    notices,     \* the Notices checkForUpdates has shown (history)
    rtCfg,       \* retryWithBackoff: config, and the fn it is called with
    rtPc,        \* retryWithBackoff: position of the call
    rtAttempt,   \* retryWithBackoff: attempt
    rtLastError, \* retryWithBackoff: lastError
    rtDelay,     \* retryWithBackoff: the delay handed to the pending sleep
    rtCalls,     \* outcome of every call of fn so far, in order (history)
    rtDecisions, \* every decision shouldRetry returned, in order (history)
    rtSleeps,    \* the delay of every sleep so far, in order (history)
    rtResult,    \* what the caller of retryWithBackoff receives
    token,       \* settings.token
    checker,     \* this.updateCheckInterval and the window's intervals
    handlers,    \* position of each event handler of the settings tab
    screen,      \* what the last display() rendered
    cache,       \* the Cache singleton: subscription, builds by token
    fetches,     \* the fetchFn calls of the cache that have not settled
    served,      \* what the cache returned from its entries (history)
    vtToken,     \* validateToken: the token it is called with
    vtPc,        \* validateToken: position of the call
    vtResult     \* validateToken: what its caller receives

vars == <<pc, registry, migrationsLoaded, fromV, toV, manual, matched, taskIdx,
          running, taskFailed, preRan, postRan, attempt, lastError, artifact, target, staging,
          backup, origTarget, hasBackup, entryIdx, thrown, fsOps, fsFailed,
          stages, pluginEnabled, manifestOf, errors, task, btnDisabled,
          autoUpdate, updateCheckInterval, currentVersion,
          showUpdateNotification, notices, rtCfg, rtPc,
          rtAttempt, rtLastError, rtDelay, rtCalls, rtDecisions, rtSleeps,
          rtResult, token, checker, handlers, screen, cache, fetches, served,
          vtToken, vtPc, vtResult>>

migVars == <<registry, migrationsLoaded, matched, taskIdx, running, taskFailed,
             preRan, postRan>>
dlVars == <<attempt, lastError, artifact>>
fsVars == <<target, staging, backup, origTarget, hasBackup, entryIdx, thrown,
            fsOps, fsFailed>>
hostVars == <<pluginEnabled, manifestOf>>
inVars == <<fromV, toV, manual>>
noteVars == <<showUpdateNotification, notices>>
trigVars == <<task, btnDisabled, autoUpdate, updateCheckInterval,
              currentVersion, noteVars>>
\* the state of the components one upgrade task never touches
retryVars == <<rtCfg, rtPc, rtAttempt, rtLastError, rtDelay, rtCalls,
               rtDecisions, rtSleeps, rtResult>>
\* the state of the settings tab, its timer and the cache
tabVars == <<token, checker, handlers, screen, cache, fetches, served>>
\* the state of one call of validateToken
authVars == <<vtToken, vtPc, vtResult>>
extVars == <<trigVars, retryVars, tabVars, authVars>>
\* the state of one upgrade task
upVars == <<pc, migVars, inVars, dlVars, fsVars, stages, hostVars, errors>>

----------------------------------------------------------------------------
(* Bounds of the model *)

\* registerMigration calls made by other modules before the first query
MaxExtraMigrations == 1

----------------------------------------------------------------------------
(* Versions: "a.b.c" or "a.b.c-beta-N"; beta = 0 stands for no suffix *)

Ver(a, b, c) == [core |-> <<a, b, c>>, beta |-> 0]

Beta(v, n) == [v EXCEPT !.beta = n]

StripBeta_Kept(v) == v

\* fromVersion.replace(/-beta-\d+$/, "")
StripBeta(v) == [v EXCEPT !.beta = 0]

\* semver.lt: the cores in order; with equal cores a pre-release version
\* (beta-N, N one digit) precedes the release and a lower N a higher one
SemverLt(a, b) ==
    \/ a.core[1] < b.core[1]
    \/ a.core[1] = b.core[1] /\ a.core[2] < b.core[2]
    \/ a.core[1] = b.core[1] /\ a.core[2] = b.core[2] /\ a.core[3] < b.core[3]
    \/ a.core = b.core /\ a.beta # 0 /\ (b.beta = 0 \/ a.beta < b.beta)

SemverLte(a, b) == ~SemverLt(b, a)

SemverGte(a, b) == ~SemverLt(a, b)

\* the two qualifiers registered by the migrations module
UpQualifier == [fromVersion |-> Ver(0, 17, 4), toVersion |-> Ver(0, 18, 0)]

DownQualifier == [fromVersion |-> Ver(0, 18, 0), toVersion |-> Ver(0, 17, 4)]

ModuleMigrations == <<UpQualifier, DownQualifier>>

Qualifiers == {UpQualifier, DownQualifier}

\* the transitions an upgrade is started with
Transitions ==
    { <<Beta(Ver(0, 17, 4), 3), Ver(0, 18, 0)>>,
      <<Ver(0, 18, 0), Ver(0, 17, 0)>>,
      <<Ver(0, 18, 0), Beta(Ver(0, 18, 0), 2)>> }

----------------------------------------------------------------------------
(* Migration registry *)

Positions(n) == [i \in 1..n |-> i]

\* the filter predicate as the registry's first revision had it
MigrationMatches_FirstRevision(q, realFrom, realTo) ==
    LET mFrom == q.fromVersion
        mTo == q.toVersion
    IN IF SemverLt(realFrom, realTo)
       THEN SemverLte(mFrom, realFrom) /\ SemverLte(realTo, mTo)
       ELSE SemverLte(mTo, realFrom) /\ SemverLte(realTo, mFrom)

\* faulty variant: the record's own direction is not looked at
MigrationMatches_AnyDirection(q, realFrom, realTo) ==
    IF SemverLt(realFrom, realTo)
    THEN SemverLte(realFrom, q.fromVersion) /\ SemverGte(realTo, q.toVersion)
    ELSE SemverGte(realFrom, q.fromVersion) /\ SemverLte(realTo, q.toVersion)

\* faulty variant: the record's direction is looked at for upgrades only
MigrationMatches_DowngradeUnchecked(q, realFrom, realTo) ==
    IF SemverLt(realFrom, realTo)
    THEN /\ SemverLt(q.fromVersion, q.toVersion)
         /\ SemverLte(realFrom, q.fromVersion)
         /\ SemverGte(realTo, q.toVersion)
    ELSE SemverGte(realFrom, q.fromVersion) /\ SemverLte(realTo, q.toVersion)

\* the filter predicate of queryMigrations, on normalized versions
MigrationMatches(q, realFrom, realTo) ==
    LET mFrom == q.fromVersion
        mTo == q.toVersion
        isUpgrade == SemverLt(realFrom, realTo)
        migrationIsUpgrade == SemverLt(mFrom, mTo)
    IN IF isUpgrade
       THEN /\ migrationIsUpgrade
            /\ SemverLte(realFrom, mFrom)
            /\ SemverGte(realTo, mTo)
       ELSE /\ ~migrationIsUpgrade
            /\ SemverGte(realFrom, mFrom)
            /\ SemverLte(realTo, mTo)

\* faulty variant: the matching records, last registered first
QueryMigrations_Reversed(reg, from, to) ==
    LET kept == SelectSeq(Positions(Len(reg)),
                          LAMBDA i : MigrationMatches(reg[i], StripBeta(from),
                                                      StripBeta(to)))
    IN [k \in 1..Len(kept) |-> kept[Len(kept) + 1 - k]]

\* queryMigrations: the matching records' positions, in registration order
QueryMigrations(reg, from, to) ==
    SelectSeq(Positions(Len(reg)),
              LAMBDA i : MigrationMatches(reg[i], StripBeta(from), StripBeta(to)))

\* the registry as the first revision kept it, a map from qualifier to
\* record: a record is not added when its qualifier is already a key
LoadedRegistry_Keyed ==
    IF migrationsLoaded
    THEN registry
    ELSE registry \o SelectSeq(ModuleMigrations,
                               LAMBDA q : \A i \in 1..Len(registry) :
                                              registry[i] # q)

\* ensureMigrationsLoaded: the first query imports the migrations module,
\* whose top-level statements register its two records
LoadedRegistry == IF migrationsLoaded THEN registry ELSE registry \o ModuleMigrations

\* registerMigration, called by another module before the first query
RegisterMigration(q) ==
    /\ pc = "idle"
    /\ ~migrationsLoaded
    /\ Len(registry) < MaxExtraMigrations
    /\ registry' = Append(registry, q)
    /\ UNCHANGED <<pc, migrationsLoaded, matched, taskIdx, running, taskFailed,
                   preRan, postRan,
                   inVars, extVars, dlVars, fsVars, stages, hostVars, errors>>

\* the orchestrator is entered with (fromVersion, toVersion, tag, manual)
StartUpgrade ==
    /\ pc = "idle"
    /\ pc' = "preQuery"
    /\ stages' = stages \cup {"pre"}
    /\ UNCHANGED <<migVars, inVars, extVars, dlVars, fsVars, hostVars, errors>>

\* runPreinstallationTasks: await migrationRegistry.queryMigrations(...)
QueryPre ==
    /\ pc = "preQuery"
    /\ registry' = LoadedRegistry
    /\ migrationsLoaded' = TRUE
    /\ matched' = QueryMigrations(LoadedRegistry, fromV, toV)
    /\ taskIdx' = 1
    /\ pc' = "pre"
    /\ UNCHANGED <<running, taskFailed, preRan, postRan, inVars, extVars,
                   dlVars, fsVars, stages, hostVars, errors>>

\* faulty variant: the loop returns after its first task
TasksExhausted_FirstOnly == taskIdx > 1 \/ taskIdx > Len(matched)

\* the for-of loop of a task runner has visited every matched record
TasksExhausted == taskIdx > Len(matched)

\* faulty variant: the task's promise is not awaited
Awaited_FireAndForget == TRUE

\* `await` in the for-of loop: the previous task's promise has settled
Awaited == running = {}

\* faulty variant: a rejecting task is logged and the loop goes on
TaskRejects_Logged(i) ==
    /\ taskFailed' = taskFailed \cup {[phase |-> pc, at |-> i]}
    /\ UNCHANGED <<pc, errors>>

\* a task's promise rejects: the for-of loop is left and the runner's
\* promise rejects with the task's error
TaskRejects(i) ==
    /\ taskFailed' = taskFailed \cup {[phase |-> pc, at |-> i]}
    /\ errors' = Append(errors, "MigrationFailed")
    /\ pc' = "done"

\* runPreinstallationTasks: migration.preInstallationTasks(app) is called
RunPreTask ==
    /\ pc = "pre"
    /\ ~TasksExhausted
    /\ Awaited
    /\ preRan' = preRan \cup {matched[taskIdx]}
    /\ running' = running \cup {taskIdx}
    /\ taskIdx' = taskIdx + 1
    /\ UNCHANGED <<pc, registry, migrationsLoaded, matched, taskFailed, postRan,
                   inVars, extVars, dlVars, fsVars, stages, hostVars, errors>>

\* the promise a task returned settles: it resolves, or it rejects
TaskSettles ==
    /\ pc \in {"pre", "post"}
    /\ \E i \in running :
          /\ running' = running \ {i}
          /\ \/ UNCHANGED <<pc, errors, taskFailed>>
             \/ TaskRejects(i)
    /\ UNCHANGED <<registry, migrationsLoaded, matched, taskIdx, preRan,
                   postRan, inVars, extVars, dlVars, fsVars, stages, hostVars>>

\* runPreinstallationTasks returned: the orchestrator calls upgrade()
PreReturn ==
    /\ pc = "pre"
    /\ TasksExhausted
    /\ Awaited
    /\ pc' = "upgrade"
    /\ UNCHANGED <<migVars, inVars, extVars, dlVars, fsVars, stages, hostVars,
                   errors>>

----------------------------------------------------------------------------
(* Artifact downloader: downloadBuild over retryWithBackoff *)

\* retryConfig.maxRetries of downloadBuild
DownloadMaxRetries == 5

\* the download endpoint's answers: the HTTP status, and for a 200 whether
\* it carries content-type application/zip and an x-sha256 header; status 0
\* stands for requestUrl itself rejecting (no response at all)
Responses ==
    [status : {200}, wellFormed : BOOLEAN]
        \cup [status : {0, 202, 401, 404, 429, 500, 503}, wellFormed : {FALSE}]

\* ApiService.downloadBuild: the switch over response.status
Classify(resp) ==
    CASE resp.status = 0 -> "NetworkError"
      [] resp.status = 200 -> IF resp.wellFormed THEN "Success" ELSE "UnknownError"
      [] resp.status = 202 -> "BuildNotReady"
      [] resp.status = 401 -> "Unauthorized"
      [] resp.status = 404 -> "NotFound"
      [] resp.status = 429 -> "RateLimited"
      [] resp.status = 500 -> "ServerError"
      [] OTHER -> "UnknownError"

\* the kinds thrown as ApiException
ApiErrors ==
    {"UnknownError", "Unauthorized", "NotFound", "ServerError", "BuildNotReady",
     "RateLimited"}

RETRYABLE_ERRORS_All == ApiErrors

RETRYABLE_ERRORS == {"ServerError", "UnknownError"}

ShouldRetry_IgnoresManual(kind, isManual) ==
    IF kind \in ApiErrors
    THEN kind = "BuildNotReady" \/ kind \in RETRYABLE_ERRORS
    ELSE TRUE

\* retryConfig.shouldRetry of downloadBuild
ShouldRetry(kind, isManual) ==
    IF kind \in ApiErrors
    THEN IF kind = "BuildNotReady" THEN ~isManual
         ELSE kind \in RETRYABLE_ERRORS
    ELSE TRUE

\* the archives a well-formed response can carry: whether its bytes hash to
\* the x-sha256 header, whether JSZip can open it, and zip.files in order
Entry(n, d) == [name |-> n, dir |-> d]

Archives ==
    { <<>>,
      <<Entry("assets/", TRUE)>>,
      <<Entry("main.js", FALSE)>>,
      <<Entry("main.js", FALSE), Entry("assets/", TRUE),
        Entry("manifest.json", FALSE)>> }

Artifacts == [digestOk : BOOLEAN, zipOk : BOOLEAN, entries : Archives]

NoArtifact == [digestOk |-> FALSE, zipOk |-> FALSE, entries |-> <<>>]

\* upgrade(): new ApiService(token); await downloadBuild(apiService, tag, manual)
UpgradeEnter ==
    /\ pc = "upgrade"
    /\ pc' = "download"
    /\ attempt' = 0
    /\ stages' = stages \cup {"download"}
    /\ UNCHANGED <<migVars, inVars, extVars, lastError, artifact, fsVars,
                   hostVars,
                   errors>>

\* the error downloadBuild's catch hands on: an ApiException or an
\* UpgradeException as it is, anything else wrapped
DownloadError(kind) == IF kind \in ApiErrors THEN kind ELSE "DownloadFailed"

\* retryWithBackoff: await fn(), one pass of the loop body up to the sleep
DownloadAttempt ==
    /\ pc = "download"
    /\ \E resp \in Responses :
         LET kind == Classify(resp) IN
         IF kind = "Success"
         THEN /\ \E a \in Artifacts : artifact' = a
              /\ pc' = "verifyAndUpgrade"
              /\ attempt' = 0
              /\ lastError' = "none"
              /\ UNCHANGED errors
         ELSE /\ lastError' = kind
              /\ IF attempt >= DownloadMaxRetries \/ ~ShouldRetry(kind, manual)
                 THEN /\ errors' = Append(errors, DownloadError(kind))
                      /\ pc' = "done"
                 ELSE /\ pc' = "sleep"
                      /\ UNCHANGED errors
              /\ UNCHANGED <<attempt, artifact>>
    /\ UNCHANGED <<migVars, inVars, extVars, fsVars, stages, hostVars>>

\* retryWithBackoff: await sleep(...); attempt++
DownloadSleep ==
    /\ pc = "sleep"
    /\ attempt' = attempt + 1
    /\ pc' = "download"
    /\ UNCHANGED <<migVars, inVars, extVars, lastError, artifact, fsVars,
                   stages,
                   hostVars, errors>>

----------------------------------------------------------------------------
(* Host filesystem: a directory is absent, or holds files (name, content) *)

File(n, c) == [name |-> n, content |-> c]

Absent == [exists |-> FALSE, files |-> {}]

Dir(fs) == [exists |-> TRUE, files |-> fs]

\* an install as an earlier upgrade left it, with or without a data.json
OldInstall(withSettings) ==
    Dir({File("main.js", "old"), File("manifest.json", "old")}
            \cup (IF withSettings THEN {File("data.json", "cfg")} ELSE {}))

InitialTargets == {Absent, OldInstall(FALSE), OldInstall(TRUE)}

\* fs.writeBinary(path, content): the file is created or replaced
WriteFile(dir, n, c) ==
    [dir EXCEPT !.files = {f \in @ : f.name # n} \cup {File(n, c)}]

\* fs.exists(`${targetDir}/data.json`)
HasSettingFile(dir) == dir.exists /\ \E f \in dir.files : f.name = "data.json"

SettingsOf(dir) == {f \in dir.files : f.name = "data.json"}

\* faulty variant: nothing is copied
CopySettingFile_Nothing(from, to) == to

\* fs.copy(settingFile, tempSettingFile)
CopySettingFile(from, to) ==
    [to EXCEPT !.files = {f \in @ : f.name # "data.json"} \cup SettingsOf(from)]

\* the staging tree once every entry is extracted: the non-directory entries
ExtractedFiles(entries) ==
    {File(entries[i].name, "new") : i \in {j \in 1..Len(entries) : ~entries[j].dir}}

\* a filesystem mutation was attempted, and maybe rejected
Attempted(op) == fsOps' = fsOps \cup {op}

Rejected(op) == fsFailed' = fsFailed \cup {op}

\* the exception goes to verifyAndUpgrade's outer catch
Throw(kind) == thrown' = kind /\ pc' = "cleanupTemp"

----------------------------------------------------------------------------
(* verifyAndUpgrade *)

\* verify(): the SHA-256 of the bytes, in hex, equals the x-sha256 header
DigestMismatch_Ignored(a) == TRUE

DigestMatches(a) == a.digestOk

\* Object.keys(zip.files).length === 0
ArchiveIsEmpty_Unchecked(a) == FALSE

ArchiveIsEmpty(a) == Len(a.entries) = 0

\* Step 1: await verify(binaryData, result.sha256)
\* hashHex !== sha256 throws before anything else is done
VerifyDigest ==
    /\ pc = "verifyAndUpgrade"
    /\ origTarget' = target
    /\ stages' = stages \cup {"verify"}
    /\ IF DigestMatches(artifact)
       THEN pc' = "open" /\ UNCHANGED thrown
       ELSE Throw("IntegrityMismatch")
    /\ UNCHANGED <<migVars, inVars, extVars, dlVars, target, staging, backup,
                   hasBackup,
                   entryIdx, fsOps, fsFailed, hostVars, errors>>

\* Step 2: await zip.loadAsync(binaryData); Object.keys(zip.files).length === 0
OpenArchive ==
    /\ pc = "open"
    /\ stages' = stages \cup {"open"}
    /\ IF ~artifact.zipOk
       THEN Throw("Error")
       ELSE IF ArchiveIsEmpty(artifact)
            THEN Throw("MalformedArtifact")
            ELSE pc' = "mkdir" /\ UNCHANGED thrown
    /\ UNCHANGED <<migVars, inVars, extVars, dlVars, target, staging, backup,
                   origTarget,
                   hasBackup, entryIdx, fsOps, fsFailed, hostVars, errors>>

\* Step 3: await fs.mkdir(tempDir)
MakeStaging ==
    /\ pc = "mkdir"
    /\ Attempted("mkdir")
    /\ \/ /\ staging' = Dir({})
          /\ entryIdx' = 1
          /\ pc' = "extract"
          /\ UNCHANGED <<thrown, fsFailed>>
       \/ /\ Rejected("mkdir")
          /\ Throw("Error")
          /\ UNCHANGED <<staging, entryIdx>>
    /\ UNCHANGED <<migVars, inVars, extVars, dlVars, target, backup, origTarget,
                   hasBackup, stages, hostVars, errors>>

\* Step 3: one pass of the loop over Object.entries(zip.files); a rejected
\* writeBinary may leave nothing or a truncated file behind
ExtractEntry ==
    /\ pc = "extract"
    /\ entryIdx <= Len(artifact.entries)
    /\ LET e == artifact.entries[entryIdx] IN
       IF e.dir
       THEN /\ entryIdx' = entryIdx + 1
            /\ UNCHANGED <<pc, staging, thrown, fsOps, fsFailed>>
       ELSE /\ Attempted("write")
            /\ \/ /\ staging' = WriteFile(staging, e.name, "new")
                  /\ entryIdx' = entryIdx + 1
                  /\ UNCHANGED <<pc, thrown, fsFailed>>
               \/ /\ Rejected("write")
                  /\ staging' \in {staging, WriteFile(staging, e.name, "partial")}
                  /\ Throw("Error")
                  /\ UNCHANGED entryIdx
    /\ UNCHANGED <<migVars, inVars, extVars, dlVars, target, backup, origTarget,
                   hasBackup, stages, hostVars, errors>>

\* Step 4: if (hasSettingFile) await fs.copy(settingFile, tempSettingFile)
CopySettings ==
    /\ pc = "extract"
    /\ entryIdx > Len(artifact.entries)
    /\ IF HasSettingFile(target)
       THEN /\ Attempted("copy")
            /\ \/ /\ staging' = CopySettingFile(target, staging)
                  /\ pc' = "backup"
                  /\ UNCHANGED <<thrown, fsFailed>>
               \/ /\ Rejected("copy")
                  /\ Throw("Error")
                  /\ UNCHANGED staging
       ELSE /\ pc' = "backup"
            /\ UNCHANGED <<staging, thrown, fsOps, fsFailed>>
    /\ UNCHANGED <<migVars, inVars, extVars, dlVars, target, backup, origTarget,
                   hasBackup, entryIdx, stages, hostVars, errors>>

\* the backup step as the first revision had it: fs.copy, not fs.rename
BackupExisting_Copied ==
    /\ pc = "backup"
    /\ hasBackup' = target.exists
    /\ IF target.exists
       THEN /\ Attempted("renameBackup")
            /\ \/ /\ backup' = target
                  /\ pc' = "swap"
                  /\ UNCHANGED <<target, thrown, fsFailed>>
               \/ /\ Rejected("renameBackup")
                  /\ Throw("Error")
                  /\ UNCHANGED <<target, backup>>
       ELSE /\ pc' = "swap"
            /\ UNCHANGED <<target, backup, thrown, fsOps, fsFailed>>
    /\ UNCHANGED <<migVars, inVars, extVars, dlVars, staging, origTarget,
                   entryIdx, stages, hostVars, errors>>

\* faulty variant: the rename is not awaited, so its rejection is not seen
BackupExisting_Unawaited ==
    /\ pc = "backup"
    /\ hasBackup' = target.exists
    /\ IF target.exists
       THEN /\ Attempted("renameBackup")
            /\ \/ /\ backup' = target
                  /\ target' = Absent
                  /\ UNCHANGED fsFailed
               \/ /\ Rejected("renameBackup")
                  /\ UNCHANGED <<target, backup>>
       ELSE UNCHANGED <<target, backup, fsOps, fsFailed>>
    /\ pc' = "swap"
    /\ UNCHANGED <<migVars, inVars, extVars, dlVars, staging, origTarget,
                   entryIdx,
                   thrown, stages, hostVars, errors>>

\* Step 5: hasBackup = await fs.exists(targetDir);
\*         if (hasBackup) await fs.rename(targetDir, backupDir)
BackupExisting ==
    /\ pc = "backup"
    /\ hasBackup' = target.exists
    /\ IF target.exists
       THEN /\ Attempted("renameBackup")
            /\ \/ /\ backup' = target
                  /\ target' = Absent
                  /\ pc' = "swap"
                  /\ UNCHANGED <<thrown, fsFailed>>
               \/ /\ Rejected("renameBackup")
                  /\ Throw("Error")
                  /\ UNCHANGED <<target, backup>>
       ELSE /\ pc' = "swap"
            /\ UNCHANGED <<target, backup, thrown, fsOps, fsFailed>>
    /\ UNCHANGED <<migVars, inVars, extVars, dlVars, staging, origTarget,
                   entryIdx,
                   stages, hostVars, errors>>

\* faulty variant: the catch throws without renaming the backup back
SwapStaging_NoRollback ==
    /\ pc = "swap"
    /\ Attempted("renameSwap")
    /\ \/ /\ target' = staging
          /\ staging' = Absent
          /\ pc' = IF hasBackup THEN "cleanBackup" ELSE "installed"
          /\ UNCHANGED <<thrown, fsFailed>>
       \/ /\ Rejected("renameSwap")
          /\ Throw("InstallFailed")
          /\ UNCHANGED <<target, staging>>
    /\ UNCHANGED <<migVars, inVars, extVars, dlVars, backup, origTarget,
                   hasBackup,
                   entryIdx, stages, hostVars, errors>>

\* Step 6: await fs.rename(tempDir, targetDir); a rejection enters the catch
SwapStaging ==
    /\ pc = "swap"
    /\ Attempted("renameSwap")
    /\ \/ /\ target' = staging
          /\ staging' = Absent
          /\ pc' = IF hasBackup THEN "cleanBackup" ELSE "installed"
          /\ UNCHANGED <<thrown, fsFailed>>
       \/ /\ Rejected("renameSwap")
          /\ IF hasBackup
             THEN pc' = "rollback" /\ UNCHANGED thrown
             ELSE Throw("InstallFailed")
          /\ UNCHANGED <<target, staging>>
    /\ UNCHANGED <<migVars, inVars, extVars, dlVars, backup, origTarget,
                   hasBackup,
                   entryIdx, stages, hostVars, errors>>

\* faulty variant: cleanup removes nothing
CleanupResult_Skipped(dir, op) == UNCHANGED <<dir, fsOps, fsFailed>>

\* cleanup(fs, dir): if (await fs.exists(dir)) await fs.rmdir(dir, true),
\* every error swallowed; the directory afterwards
CleanupResult(dir, op) ==
    IF dir.exists
    THEN /\ Attempted(op)
         /\ \/ dir' = Absent /\ UNCHANGED fsFailed
            \/ Rejected(op) /\ UNCHANGED dir
    ELSE UNCHANGED <<dir, fsOps, fsFailed>>

\* faulty variant: a rejected removal of the backup is thrown
CleanBackup_Propagating ==
    /\ pc = "cleanBackup"
    /\ Attempted("rmdirBackup")
    /\ \/ /\ backup' = Absent
          /\ pc' = "installed"
          /\ UNCHANGED <<thrown, fsFailed>>
       \/ /\ Rejected("rmdirBackup")
          /\ Throw("InstallFailed")
          /\ UNCHANGED backup
    /\ UNCHANGED <<migVars, inVars, extVars, dlVars, target, staging,
                   origTarget, hasBackup, entryIdx, stages, hostVars, errors>>

\* Step 6: if (hasBackup) await cleanup(fs, backupDir)
CleanBackup ==
    /\ pc = "cleanBackup"
    /\ CleanupResult(backup, "rmdirBackup")
    /\ pc' = "installed"
    /\ UNCHANGED <<migVars, inVars, extVars, dlVars, target, staging,
                   origTarget,
                   hasBackup, entryIdx, thrown, stages, hostVars, errors>>

\* faulty variant: after a successful rollback nothing is thrown
Rollback_NoThrow ==
    /\ pc = "rollback"
    /\ Attempted("renameRollback")
    /\ \/ /\ target' = backup
          /\ backup' = Absent
          /\ pc' = "installed"
          /\ UNCHANGED <<thrown, fsFailed>>
       \/ /\ Rejected("renameRollback")
          /\ Throw("Error")
          /\ UNCHANGED <<target, backup>>
    /\ UNCHANGED <<migVars, inVars, extVars, dlVars, staging, origTarget,
                   hasBackup,
                   entryIdx, stages, hostVars, errors>>

\* the catch of Step 6: if (hasBackup) await fs.rename(backupDir, targetDir);
\* throw new UpgradeException(`Installation failed: ...`)
Rollback ==
    /\ pc = "rollback"
    /\ Attempted("renameRollback")
    /\ \/ /\ target' = backup
          /\ backup' = Absent
          /\ Throw("InstallFailed")
          /\ UNCHANGED fsFailed
       \/ /\ Rejected("renameRollback")
          /\ Throw("Error")
          /\ UNCHANGED <<target, backup>>
    /\ UNCHANGED <<migVars, inVars, extVars, dlVars, staging, origTarget,
                   hasBackup,
                   entryIdx, stages, hostVars, errors>>

\* faulty variant: every caught error is wrapped again
Rethrown_AlwaysWrapped(kind) == "UpgradeFailed"

\* the message class of the UpgradeException the outer catch throws: an
\* UpgradeException as it is, anything else as UpgradeException(e(error))
Rethrown(kind) == IF kind = "Error" THEN "UpgradeFailed" ELSE kind

\* faulty variant: the outer catch cleans up and does not rethrow
CleanupTemp_Swallow ==
    /\ pc = "cleanupTemp"
    /\ CleanupResult(staging, "rmdirStaging")
    /\ pc' = "installed"
    /\ UNCHANGED <<migVars, inVars, extVars, dlVars, target, backup, origTarget,
                   hasBackup, entryIdx, thrown, stages, hostVars, errors>>

\* the outer catch: await cleanup(fs, tempDir); throw
CleanupTemp ==
    /\ pc = "cleanupTemp"
    /\ CleanupResult(staging, "rmdirStaging")
    /\ errors' = Append(errors, Rethrown(thrown))
    /\ pc' = "done"
    /\ UNCHANGED <<migVars, inVars, extVars, dlVars, target, backup, origTarget,
                   hasBackup, entryIdx, thrown, stages, hostVars>>

----------------------------------------------------------------------------
(* reloadPlugin *)

ManifestIn(dir) ==
    IF \E f \in dir.files : f.name = "manifest.json"
    THEN (CHOOSE f \in dir.files : f.name = "manifest.json").content
    ELSE "none"

ReloadFail == errors' = Append(errors, "ReloadFailed") /\ pc' = "done"

\* verifyAndUpgrade returned: upgrade() awaits reloadPlugin(app);
\* if (app.plugins.getPlugin(ID)) await app.plugins.disablePlugin(ID)
ReloadDisable ==
    /\ pc = "installed"
    /\ stages' = stages \cup {"reload"}
    /\ IF pluginEnabled
       THEN \/ /\ pluginEnabled' = FALSE
               /\ pc' = "loadManifest"
               /\ UNCHANGED errors
            \/ ReloadFail /\ UNCHANGED pluginEnabled
       ELSE /\ pc' = "loadManifest"
            /\ UNCHANGED <<pluginEnabled, errors>>
    /\ UNCHANGED <<migVars, inVars, extVars, dlVars, fsVars, manifestOf>>

\* await app.plugins.loadManifest(targetDir)
ReloadManifest ==
    /\ pc = "loadManifest"
    /\ \/ /\ manifestOf' = ManifestIn(target)
          /\ pc' = "enable"
          /\ UNCHANGED errors
       \/ ReloadFail /\ UNCHANGED manifestOf
    /\ UNCHANGED <<migVars, inVars, extVars, dlVars, fsVars, stages,
                   pluginEnabled>>

\* await app.plugins.enablePluginAndSave(ID); upgrade() returns
ReloadEnable ==
    /\ pc = "enable"
    /\ \/ /\ pluginEnabled' = TRUE
          /\ pc' = "upgraded"
          /\ UNCHANGED errors
       \/ ReloadFail /\ UNCHANGED pluginEnabled
    /\ UNCHANGED <<migVars, inVars, extVars, dlVars, fsVars, stages,
                   manifestOf>>

----------------------------------------------------------------------------
(* Post-install migration tasks *)

\* upgrade() returned: the orchestrator calls runPostinstallationTasks
PostEnter ==
    /\ pc = "upgraded"
    /\ pc' = "postQuery"
    /\ stages' = stages \cup {"post"}
    /\ UNCHANGED <<migVars, inVars, extVars, dlVars, fsVars, hostVars, errors>>

\* runPostinstallationTasks: await migrationRegistry.queryMigrations(...)
QueryPost ==
    /\ pc = "postQuery"
    /\ registry' = LoadedRegistry
    /\ migrationsLoaded' = TRUE
    /\ matched' = QueryMigrations(LoadedRegistry, fromV, toV)
    /\ taskIdx' = 1
    /\ pc' = "post"
    /\ UNCHANGED <<running, taskFailed, preRan, postRan, inVars, extVars,
                   dlVars, fsVars, stages, hostVars, errors>>

\* faulty variant: the loop runs over every registered record
RunPostTask_AllRecords ==
    /\ pc = "post"
    /\ ~TasksExhausted
    /\ Awaited
    /\ postRan' = postRan \cup {taskIdx}
    /\ running' = running \cup {taskIdx}
    /\ taskIdx' = taskIdx + 1
    /\ UNCHANGED <<pc, registry, migrationsLoaded, matched, taskFailed, preRan,
                   inVars, extVars, dlVars, fsVars, stages, hostVars, errors>>

\* runPostinstallationTasks: migration.postInstallationTasks(app) is called
RunPostTask ==
    /\ pc = "post"
    /\ ~TasksExhausted
    /\ Awaited
    /\ postRan' = postRan \cup {matched[taskIdx]}
    /\ running' = running \cup {taskIdx}
    /\ taskIdx' = taskIdx + 1
    /\ UNCHANGED <<pc, registry, migrationsLoaded, matched, taskFailed, preRan,
                   inVars, extVars, dlVars, fsVars, stages, hostVars, errors>>

\* runPostinstallationTasks returned: the upgrade is complete
PostReturn ==
    /\ pc = "post"
    /\ TasksExhausted
    /\ Awaited
    /\ pc' = "done"
    /\ UNCHANGED <<migVars, inVars, extVars, dlVars, fsVars, stages, hostVars,
                   errors>>

----------------------------------------------------------------------------
(* retryWithBackoff with its history: for any fn and any decider, and for  *)
(* the fn and the decider downloadBuild hands to it                        *)

\* the largest maxRetries of a generic call
MaxRetriesBound == 3

RETRY_DELAY == 1000

\* an optional value: <<>> is undefined, <<v>> is the value v
Undefined == <<>>
Some(v) == <<v>>

RECURSIVE Pow2(_)
\* Math.pow(2, n)
Pow2(n) == IF n = 0 THEN 1 ELSE 2 * Pow2(n - 1)

\* a call with an arbitrary fn, without a decider or with an arbitrary one
GenericConfigs ==
    [maxRetries : 0..MaxRetriesBound, initialDelay : {RETRY_DELAY},
     shouldRetry : {"absent", "any"}, manual : {FALSE}]

\* the call downloadBuild makes
DownloadConfigs ==
    [maxRetries : {DownloadMaxRetries}, initialDelay : {RETRY_DELAY},
     shouldRetry : {"downloadBuild"}, manual : BOOLEAN]

\* what requestUrl resolves with, as ApiService.downloadBuild reads it: the
\* status, whether content-type is application/zip, whether x-sha256 is
\* set, and retry_after of a 202 body (absent, 0 or 2 seconds)
Replies ==
    [status : {200}, zip : BOOLEAN, sha256 : BOOLEAN,
     retry_after : {Undefined}]
        \cup [status : {202}, zip : {FALSE}, sha256 : {FALSE},
              retry_after : {Undefined, Some(0), Some(2)}]
        \cup [status : {0, 401, 404, 429, 500, 503}, zip : {FALSE},
              sha256 : {FALSE}, retry_after : {Undefined}]

\* the part of a reply the switch over the status looks at
ResponseOf(reply) ==
    [status |-> reply.status, wellFormed |-> reply.zip /\ reply.sha256]

\* the call validateToken makes
ValidateMaxRetries == 5
ValidateInitialDelay == 500
ValidateConfig ==
    [maxRetries |-> ValidateMaxRetries, initialDelay |-> ValidateInitialDelay,
     shouldRetry |-> "validateToken", manual |-> FALSE]

\* what requestUrl does for GET /subscription: it rejects (status 0), or
\* resolves with a status and, for 200, a body that says valid, says not
\* valid, says success: false, or has no data
SubscriptionReplies ==
    [status : {200}, body : {"valid", "notValid", "noSuccess", "noData"}]
        \cup [status : {0, 401, 429, 500, 503}, body : {"none"}]

\* ApiService.getSubscription and the fn of validateToken: what the call
\* ends with, a value or the kind of what it throws
SubscriptionKind(r) ==
    CASE r.status = 0 -> "Error"
      [] r.status = 200 ->
            CASE r.body = "valid" -> "value"
              [] r.body = "noData" -> "Error"
              [] OTHER -> "Unauthorized"
      [] r.status = 401 -> "Unauthorized"
      [] r.status = 429 -> "RateLimited"
      [] r.status = 500 -> "ServerError"
      [] OTHER -> "UnknownError"

\* auth.ts: RETRYABLE_ERRORS
AUTH_RETRYABLE_ERRORS == {"ServerError", "UnknownError", "RateLimited"}

\* retryConfig.shouldRetry of validateToken
ValidateDecision(err) ==
    [retry |-> err.kind \in ApiErrors /\ err.kind \in AUTH_RETRYABLE_ERRORS,
     delay |-> Undefined]

\* what one call of fn can end with: a value, or something thrown (an
\* Error, or a value that is no Error, such as a string)
Outcomes(cfg) ==
    IF cfg.shouldRetry = "downloadBuild"
    THEN { [ok |-> Classify(ResponseOf(r)) = "Success",
            kind |-> Classify(ResponseOf(r)),
            ctx |-> r.retry_after,
            reply |-> Some(r)] : r \in Replies }
    ELSE IF cfg.shouldRetry = "validateToken"
    THEN { [ok |-> SubscriptionKind(r) = "value",
            kind |-> SubscriptionKind(r),
            ctx |-> Undefined,
            reply |-> Some(r)] : r \in SubscriptionReplies }
    ELSE { [ok |-> k = "value", kind |-> k, ctx |-> Undefined,
            reply |-> Undefined] : k \in {"value", "Error", "string"} }

\* what the n-th call of fn threw
ErrorOf(o, n) == [kind |-> o.kind, ctx |-> o.ctx, n |-> n]

\* makeError: an Error as it is, anything else wrapped in a new Error
MakeError(e) == IF e.kind = "string" THEN [e EXCEPT !.kind = "Error"] ELSE e

UNKNOWN_ERROR == [kind |-> "Error", ctx |-> Undefined, n |-> 0]

DefaultDelay_Linear(cfg, n) == cfg.initialDelay * (n + 1)

\* config.initialDelay * Math.pow(2, attempt)
DefaultDelay(cfg, n) == cfg.initialDelay * Pow2(n)

\* faulty variant: only a missing hint falls back (?? in place of ||)
NotReadyDelay_ZeroKept(ctx) ==
    IF ctx = Undefined THEN RETRY_DELAY ELSE ctx[1] * 1000

NotReadyDelay_Seconds(ctx) ==
    LET s == IF ctx = Undefined THEN 0 ELSE ctx[1]
    IN IF s # 0 THEN s ELSE RETRY_DELAY

\* (error.context?.retry_after as number) * 1000 || RETRY_DELAY
NotReadyDelay(ctx) ==
    LET ms == IF ctx = Undefined THEN 0 ELSE ctx[1] * 1000
    IN IF ms # 0 THEN ms ELSE RETRY_DELAY

\* retryConfig.shouldRetry of downloadBuild, with the delay it asks for
DownloadDecision(err, isManual) ==
    IF err.kind = "BuildNotReady"
    THEN [retry |-> ShouldRetry(err.kind, isManual),
          delay |-> Some(NotReadyDelay(err.ctx))]
    ELSE [retry |-> ShouldRetry(err.kind, isManual), delay |-> Undefined]

\* the decisions config.shouldRetry(error, attempt) can return
Decisions(cfg, err) ==
    IF cfg.shouldRetry = "downloadBuild"
    THEN {DownloadDecision(err, cfg.manual)}
    ELSE IF cfg.shouldRetry = "validateToken"
    THEN {ValidateDecision(err)}
    ELSE [retry : BOOLEAN, delay : {Undefined, Some(0), Some(700)}]

DelayOf_ZeroIsUnset(decision, defaultDelay) ==
    IF decision.delay = Undefined \/ decision.delay = Some(0)
    THEN defaultDelay
    ELSE decision.delay[1]

\* decision.delay ?? defaultDelay
DelayOf(decision, defaultDelay) ==
    IF decision.delay = Undefined THEN defaultDelay ELSE decision.delay[1]

\* what the caller catches: downloadBuild's own catch hands an ApiException
\* on as it is and wraps anything else
Caught(cfg, e) ==
    IF cfg.shouldRetry = "downloadBuild"
    THEN [e EXCEPT !.kind = DownloadError(e.kind)]
    ELSE e

\* faulty variant: one retry more than configured
Exhausted_OffByOne(cfg, n) == n > cfg.maxRetries

\* attempt >= config.maxRetries
Exhausted(cfg, n) == n >= cfg.maxRetries

Vetoes_Never(decision) == FALSE

\* !decision.retry
Vetoes(decision) == ~decision.retry

RetryThrow_UnknownError(e) ==
    /\ rtPc' = "raised"
    /\ rtResult' = Some([raised |-> TRUE, is |-> Caught(rtCfg, UNKNOWN_ERROR)])
    /\ UNCHANGED rtDelay

\* throw lastError
RetryThrow(e) ==
    /\ rtPc' = "raised"
    /\ rtResult' = Some([raised |-> TRUE, is |-> Caught(rtCfg, e)])
    /\ UNCHANGED rtDelay

\* return await fn()
RetryReturn(o, n) ==
    /\ rtPc' = "returned"
    /\ rtResult' = Some([raised |-> FALSE, is |-> ErrorOf(o, n)])
    /\ UNCHANGED <<rtLastError, rtDelay, rtDecisions>>

\* faulty variant: the sleep is never scheduled, so its promise never resolves
RetryBackoff_NeverWakes(delay) ==
    /\ rtPc' = "asleep"
    /\ rtDelay' = delay
    /\ UNCHANGED rtResult

\* the delay is chosen; the sleep is pending
RetryBackoff(delay) ==
    /\ rtPc' = "sleep"
    /\ rtDelay' = delay
    /\ UNCHANGED rtResult

\* one pass of the loop body: await fn() and, when it threw, the catch
RetryCall ==
    /\ rtPc = "call"
    /\ \E o \in Outcomes(rtCfg) :
         LET n == Len(rtCalls) + 1
             err == ErrorOf(o, n)
             defaultDelay == DefaultDelay(rtCfg, rtAttempt)
         IN /\ rtCalls' = Append(rtCalls, o)
            /\ IF o.ok
               THEN RetryReturn(o, n)
               ELSE /\ rtLastError' = MakeError(err)
                    /\ IF Exhausted(rtCfg, rtAttempt)
                       THEN RetryThrow(MakeError(err)) /\ UNCHANGED rtDecisions
                       ELSE IF rtCfg.shouldRetry = "absent"
                       THEN RetryBackoff(defaultDelay) /\ UNCHANGED rtDecisions
                       ELSE \E d \in Decisions(rtCfg, err) :
                              /\ rtDecisions' = Append(rtDecisions, d)
                              /\ IF Vetoes(d)
                                 THEN RetryThrow(MakeError(err))
                                 ELSE RetryBackoff(DelayOf(d, defaultDelay))
    /\ UNCHANGED <<rtCfg, rtAttempt, rtSleeps, trigVars, tabVars, authVars,
                   upVars>>

\* await sleep(...); attempt++
RetrySleep ==
    /\ rtPc = "sleep"
    /\ rtSleeps' = Append(rtSleeps, rtDelay)
    /\ rtAttempt' = rtAttempt + 1
    /\ rtPc' = "call"
    /\ UNCHANGED <<rtCfg, rtLastError, rtDelay, rtCalls, rtDecisions,
                   rtResult, trigVars, tabVars, authVars,
                   upVars>>

\* retryWithBackoff is entered with one of the configs
InitRetry(cfgs) ==
    /\ rtCfg \in cfgs
    /\ rtPc = "call"
    /\ rtAttempt = 0
    /\ rtLastError = UNKNOWN_ERROR
    /\ rtDelay = 0
    /\ rtCalls = <<>>
    /\ rtDecisions = <<>>
    /\ rtSleeps = <<>>
    /\ rtResult = Undefined

\* retryWithBackoff is not being followed step by step
NoRetryRunning ==
    /\ rtCfg = [maxRetries |-> 0, initialDelay |-> RETRY_DELAY,
                shouldRetry |-> "absent", manual |-> FALSE]
    /\ rtPc = "idle"
    /\ rtAttempt = 0
    /\ rtLastError = UNKNOWN_ERROR
    /\ rtDelay = 0
    /\ rtCalls = <<>>
    /\ rtDecisions = <<>>
    /\ rtSleeps = <<>>
    /\ rtResult = Undefined

----------------------------------------------------------------------------
(* The callers of upgradeToVersion: the install buttons of the settings    *)
(* tab and the hourly update check.  Each caller is an async task; the     *)
(* upgrade it awaits is seen here as its two stages, download and install. *)

\* the builds listed in the settings tab; the first one is flagged latest
Builds == {"b1", "b2"}
LatestBuild == "b1"
Callers == Builds \cup {"timer"}

\* the tag a caller hands to upgradeToVersion
TagOf(c) == IF c = "timer" THEN LatestBuild ELSE c

\* the state the callers are in when none of them was ever triggered
NoCallerActive ==
    /\ task = [c \in Callers |-> "idle"]
    /\ btnDisabled = [b \in Builds |-> FALSE]
    /\ autoUpdate = TRUE
    /\ updateCheckInterval = FALSE
    /\ currentVersion = "none"
    /\ showUpdateNotification = TRUE
    /\ notices = {}

\* displayBuildList: every button is rendered anew, disabled when current
RenderedButtons(version) == [b \in Builds |-> b = version]

\* installBtnClick up to its await: only the clicked button is disabled
ClickInstall(b) ==
    /\ task[b] = "idle"
    /\ ~btnDisabled[b]
    /\ btnDisabled' = [btnDisabled EXCEPT ![b] = TRUE]
    /\ task' = [task EXCEPT ![b] = "download"]
    /\ UNCHANGED <<autoUpdate, updateCheckInterval, currentVersion, noteVars, retryVars,
                   tabVars, authVars,
                   upVars>>

\* the interval callback: checkForUpdates up to `await this.getBuilds`
TimerTick ==
    /\ updateCheckInterval
    /\ task["timer"] = "idle"
    /\ task' = [task EXCEPT !["timer"] = "check"]
    /\ UNCHANGED <<btnDisabled, autoUpdate, updateCheckInterval,
                   currentVersion, noteVars, retryVars, tabVars, authVars,
                   upVars>>

\* checkForUpdates after getBuilds resolved with `gotBuilds` builds or none:
\* a differing latest tag starts the upgrade when autoUpdate is on, and
\* otherwise shows the Notice when showUpdateNotification is on
CheckForUpdates ==
    /\ task["timer"] = "check"
    /\ \E gotBuilds \in BOOLEAN :
         LET newer == /\ gotBuilds
                      /\ currentVersion # "none"
                      /\ LatestBuild # currentVersion
         IN /\ task' = [task EXCEPT !["timer"] =
                          IF newer /\ autoUpdate THEN "download" ELSE "idle"]
            /\ notices' = IF newer /\ ~autoUpdate /\ showUpdateNotification
                          THEN notices \cup {"is now available"}
                          ELSE notices
    /\ UNCHANGED <<btnDisabled, autoUpdate, updateCheckInterval,
                   currentVersion, showUpdateNotification, retryVars, tabVars, authVars,
                   upVars>>

\* startUpdateChecker: the interval is cleared, and registered again only
\* when autoUpdate is on; the result is whether an interval is registered
StartUpdateChecker(auto) == auto

\* the "Auto update" toggle of the settings tab
ToggleAutoUpdate ==
    /\ autoUpdate' = ~autoUpdate
    /\ updateCheckInterval' =
         IF autoUpdate' \/ showUpdateNotification
         THEN StartUpdateChecker(autoUpdate')
         ELSE FALSE
    /\ UNCHANGED <<task, btnDisabled, currentVersion, noteVars, retryVars,
                   tabVars, authVars,
                   upVars>>

\* the "Show update notification" toggle, shown while autoUpdate is off
ToggleUpdateNotification ==
    /\ ~autoUpdate
    /\ showUpdateNotification' = ~showUpdateNotification
    /\ updateCheckInterval' =
         IF showUpdateNotification'
         THEN StartUpdateChecker(autoUpdate)
         ELSE FALSE
    /\ UNCHANGED <<task, btnDisabled, autoUpdate, currentVersion, notices,
                   retryVars, tabVars, authVars,
                   upVars>>

\* where a caller continues once upgradeToVersion has resolved; a failed
\* upgrade is caught there and turned into a Notice, so it resolves too
Resolved(c) == IF c = "timer" THEN "idle" ELSE "resolved"

\* upgrade(): the download ends, with the artifact or with an error
UpgradeDownload(c) ==
    /\ task[c] = "download"
    /\ \E ok \in BOOLEAN :
         task' = [task EXCEPT ![c] = IF ok THEN "install" ELSE Resolved(c)]
    /\ UNCHANGED <<btnDisabled, autoUpdate, updateCheckInterval,
                   currentVersion, noteVars, retryVars, tabVars, authVars,
                   upVars>>

\* upgrade(): verifyAndUpgrade and reloadPlugin end; on success the host
\* has loaded the manifest of the new build
UpgradeInstall(c) ==
    /\ task[c] = "install"
    /\ \E ok \in BOOLEAN :
         currentVersion' = IF ok THEN TagOf(c) ELSE currentVersion
    /\ task' = [task EXCEPT ![c] = Resolved(c)]
    /\ UNCHANGED <<btnDisabled, autoUpdate, updateCheckInterval, noteVars, retryVars,
                   tabVars, authVars,
                   upVars>>

\* installBtnClick after its await: installing an older build switches
\* automatic updates off, then the whole tab is rendered anew
InstallBtnResolved(b) ==
    /\ task[b] = "resolved"
    /\ LET off == b # LatestBuild /\ autoUpdate
       IN /\ autoUpdate' = IF off THEN FALSE ELSE autoUpdate
          /\ updateCheckInterval' = IF off THEN FALSE ELSE updateCheckInterval
    /\ btnDisabled' = RenderedButtons(currentVersion)
    /\ task' = [task EXCEPT ![b] = "idle"]
    /\ UNCHANGED <<currentVersion, noteVars, retryVars, tabVars, authVars,
                   upVars>>

\* the plugin was loaded with a token; Vertical Tabs may be installed
InitCallers ==
    /\ task = [c \in Callers |-> "idle"]
    /\ currentVersion \in Builds \cup {"b0", "none"}
    /\ btnDisabled = RenderedButtons(currentVersion)
    /\ autoUpdate \in BOOLEAN
    /\ updateCheckInterval = StartUpdateChecker(autoUpdate)
    /\ showUpdateNotification \in BOOLEAN
    /\ notices = {}

----------------------------------------------------------------------------
(* The settings tab: its event handlers, the update-check timer they start *)
(* and stop, and the response cache display() reads.  A handler is an      *)
(* async function; each await (validateToken, saveSettings,                *)
(* upgradeToVersion) ends one step, so handlers interleave at their awaits *)

\* the access tokens a user can enter; settings.token is "" when none is set
Tokens == {"tA", "tB"}
NoToken == ""

\* the largest number of handlers that are mid-execution at the same time
MaxInFlight == 2

\* no handler is started once this many intervals were set
MaxIntervals == 3

Handlers ==
    {"removeToken", "setToken", "setup", "autoUpdate", "notification",
     "interval", "install"}

\* the handlers that have started and have not returned
Busy == {h \in Handlers : handlers[h] # "idle"}

CanStart(h) ==
    /\ handlers[h] = "idle"
    /\ Cardinality(Busy) < MaxInFlight
    /\ checker.count < MaxIntervals

\* updateCheckInterval = null (recorded = 0), no interval set so far
NoChecker == [recorded |-> 0, active |-> {}, count |-> 0]

\* stopUpdateChecker: the recorded interval is cleared and forgotten
StopUpdateChecker(c) ==
    IF c.recorded = 0
    THEN c
    ELSE [c EXCEPT !.active = c.active \ {c.recorded}, !.recorded = 0]

\* faulty variant: a new interval is set without clearing the recorded one
StartUpdateCheckerOn_NoStop(c, auto) ==
    IF ~auto
    THEN c
    ELSE [recorded |-> c.count + 1,
          active |-> c.active \cup {c.count + 1},
          count |-> c.count + 1]

\* startUpdateChecker: stop, then set and record a new interval when
\* settings.autoUpdate is on
StartUpdateCheckerOn(c, auto) ==
    LET s == StopUpdateChecker(c)
    IN IF ~auto
       THEN s
       ELSE [recorded |-> s.count + 1,
             active |-> s.active \cup {s.count + 1},
             count |-> s.count + 1]

\* display(): the welcome screen without a token, else the settings screen
\* with the notification toggle and the interval dropdown where shown
Rendered(tok, auto, show) ==
    IF tok = NoToken
    THEN [page |-> "welcome", noteToggle |-> FALSE, interval |-> FALSE]
    ELSE [page |-> "settings", noteToggle |-> ~auto, interval |-> auto \/ show]

Closed == [page |-> "closed", noteToggle |-> FALSE, interval |-> FALSE]

\* a cache entry: the token its data was fetched with, and whether the
\* fetch was under way when invalidate() was called
CacheEntry(of, old) == [of |-> of, old |-> old]

EmptyCache ==
    [subscription |-> Undefined, builds |-> [t \in Tokens |-> Undefined]]

NothingServed == [subscription |-> Undefined, builds |-> Undefined]

\* Cache.fetchSubscription up to its await: the entry's data when there is
\* an entry that has not expired, else fetchFn is called with the token
\* displaySubscriptionStatus read
FetchSubscription(box, tok, expired) ==
    IF box.cache.subscription # Undefined /\ ~expired
    THEN [box EXCEPT !.served.subscription =
              Some([data |-> box.cache.subscription[1], for |-> tok])]
    ELSE [box EXCEPT !.fetches =
              @ \cup {[kind |-> "subscription", of |-> tok, old |-> FALSE]}]

\* Cache.fetchBuilds up to its await, for the key `${token}-${page}`
FetchBuilds(box, tok, expired) ==
    IF box.cache.builds[tok] # Undefined /\ ~expired
    THEN [box EXCEPT !.served.builds =
              Some([data |-> box.cache.builds[tok][1], for |-> tok])]
    ELSE [box EXCEPT !.fetches =
              @ \cup {[kind |-> "builds", of |-> tok, old |-> FALSE]}]

\* displaySettingsScreen: displayAvailableBuilds, displaySubscriptionStatus
DisplayLookups(box, tok, expiredB, expiredS) ==
    IF tok = NoToken
    THEN box
    ELSE FetchSubscription(FetchBuilds(box, tok, expiredB), tok, expiredS)

\* Cache.invalidate: every entry is dropped; the fetches under way go on
Invalidated(box) ==
    [box EXCEPT !.cache = EmptyCache,
                !.fetches = {[f EXCEPT !.old = TRUE] : f \in box.fetches}]

\* `const data = await fetchFn(); this.subscription = { data, ... }`, and
\* the same for builds: the entry is written when fetchFn resolves
Stored(c, f) ==
    IF f.kind = "subscription"
    THEN [c EXCEPT !.subscription = Some(CacheEntry(f.of, f.old))]
    ELSE [c EXCEPT !.builds[f.of] = Some(CacheEntry(f.of, f.old))]

cacheVars == <<cache, fetches, served>>
\* what no handler of the settings tab touches
restVars == <<task, btnDisabled, updateCheckInterval, currentVersion,
              notices, retryVars, authVars, upVars>>

\* this.display() on the state `box` of the cache
DisplayFrom(box) ==
    /\ screen' = Rendered(token, autoUpdate, showUpdateNotification)
    /\ \E expiredB, expiredS \in BOOLEAN :
         LET after == DisplayLookups([box EXCEPT !.served = NothingServed],
                                     token, expiredB, expiredS)
         IN /\ cache' = after.cache
            /\ fetches' = after.fetches
            /\ served' = after.served

Display ==
    DisplayFrom([cache |-> cache, fetches |-> fetches, served |-> served])

Returns(h) == handlers' = [handlers EXCEPT ![h] = "idle"]
Awaits(h, at) == handlers' = [handlers EXCEPT ![h] = at]

\* the tab is opened, or rendered anew by a control that only calls
\* display() (the page buttons, "Show advanced options")
DisplayTab ==
    /\ Display
    /\ UNCHANGED <<token, checker, handlers, autoUpdate,
                   showUpdateNotification, restVars>>

\* removeToken up to `await saveSettings()`
RemoveTokenClicked ==
    /\ screen.page = "settings"
    /\ CanStart("removeToken")
    /\ token' = NoToken
    /\ Awaits("removeToken", "saving")
    /\ UNCHANGED <<checker, screen, cacheVars, autoUpdate,
                   showUpdateNotification, restVars>>

\* removeToken after its await: stopUpdateChecker(), display()
RemoveTokenSaved ==
    /\ handlers["removeToken"] = "saving"
    /\ checker' = StopUpdateChecker(checker)
    /\ Display
    /\ Returns("removeToken")
    /\ UNCHANGED <<token, autoUpdate, showUpdateNotification, restVars>>

\* setToken (the welcome screen's Continue button) or setupHandler (the
\* vtbetahelper protocol link) up to `await validateToken(...)`
SetTokenClicked(h) ==
    /\ h \in {"setToken", "setup"}
    /\ h = "setToken" => screen.page = "welcome"
    /\ CanStart(h)
    /\ Awaits(h, "validating")
    /\ UNCHANGED <<token, checker, screen, cacheVars, autoUpdate,
                   showUpdateNotification, restVars>>

\* validateToken resolved: a valid token is stored and saveSettings is
\* awaited; an invalid one is reported, and setupHandler opens the tab
TokenValidated(h) ==
    /\ h \in {"setToken", "setup"}
    /\ handlers[h] = "validating"
    /\ \/ /\ \E t \in Tokens : token' = t
          /\ Awaits(h, "saving")
          /\ UNCHANGED <<screen, cacheVars>>
       \/ /\ UNCHANGED token
          /\ Returns(h)
          /\ IF h = "setup" THEN Display ELSE UNCHANGED <<screen, cacheVars>>
    /\ UNCHANGED <<checker, autoUpdate, showUpdateNotification, restVars>>

\* setToken / setupHandler after saveSettings: startUpdateChecker(), and
\* the tab is rendered
TokenSaved(h) ==
    /\ h \in {"setToken", "setup"}
    /\ handlers[h] = "saving"
    /\ checker' = StartUpdateCheckerOn(checker, autoUpdate)
    /\ Display
    /\ Returns(h)
    /\ UNCHANGED <<token, autoUpdate, showUpdateNotification, restVars>>

\* the "Auto update" toggle up to `await saveSettings()`
AutoUpdateToggled ==
    /\ screen.page = "settings"
    /\ CanStart("autoUpdate")
    /\ \E value \in BOOLEAN : autoUpdate' = value
    /\ Awaits("autoUpdate", "saving")
    /\ UNCHANGED <<token, checker, screen, cacheVars, showUpdateNotification,
                   restVars>>

\* the "Auto update" toggle after its await
AutoUpdateSaved ==
    /\ handlers["autoUpdate"] = "saving"
    /\ checker' = IF autoUpdate \/ showUpdateNotification
                  THEN StartUpdateCheckerOn(checker, autoUpdate)
                  ELSE StopUpdateChecker(checker)
    /\ Display
    /\ Returns("autoUpdate")
    /\ UNCHANGED <<token, autoUpdate, showUpdateNotification, restVars>>

\* the "Show update notification" toggle up to `await saveSettings()`;
\* the handler keeps `value`
NotificationToggled ==
    /\ screen.page = "settings"
    /\ screen.noteToggle
    /\ CanStart("notification")
    /\ \E value \in BOOLEAN :
         /\ showUpdateNotification' = value
         /\ Awaits("notification", IF value THEN "savingOn" ELSE "savingOff")
    /\ UNCHANGED <<token, checker, screen, cacheVars, autoUpdate, restVars>>

\* the "Show update notification" toggle after its await
NotificationSaved ==
    /\ handlers["notification"] \in {"savingOn", "savingOff"}
    /\ checker' = IF handlers["notification"] = "savingOn"
                  THEN StartUpdateCheckerOn(checker, autoUpdate)
                  ELSE StopUpdateChecker(checker)
    /\ Display
    /\ Returns("notification")
    /\ UNCHANGED <<token, autoUpdate, showUpdateNotification, restVars>>

\* the "Update check interval" dropdown up to `await saveSettings()`
IntervalChanged ==
    /\ screen.page = "settings"
    /\ screen.interval
    /\ CanStart("interval")
    /\ Awaits("interval", "saving")
    /\ UNCHANGED <<token, checker, screen, cacheVars, autoUpdate,
                   showUpdateNotification, restVars>>

\* the interval dropdown after its await: startUpdateChecker()
IntervalSaved ==
    /\ handlers["interval"] = "saving"
    /\ checker' = StartUpdateCheckerOn(checker, autoUpdate)
    /\ Returns("interval")
    /\ UNCHANGED <<token, screen, cacheVars, autoUpdate,
                   showUpdateNotification, restVars>>

\* installBtnClick up to `await upgradeToVersion(build.tag, true)`, for
\* the latest build or an older one
InstallClicked ==
    /\ screen.page = "settings"
    /\ CanStart("install")
    /\ \E latest \in BOOLEAN :
         Awaits("install", IF latest THEN "upgradingLatest"
                                     ELSE "upgradingOlder")
    /\ UNCHANGED <<token, checker, screen, cacheVars, autoUpdate,
                   showUpdateNotification, restVars>>

\* installBtnClick after upgradeToVersion resolved: an older build with
\* autoUpdate on switches autoUpdate off and awaits saveSettings
InstallUpgraded ==
    /\ handlers["install"] \in {"upgradingLatest", "upgradingOlder"}
    /\ IF handlers["install"] = "upgradingOlder" /\ autoUpdate
       THEN /\ autoUpdate' = FALSE
            /\ Awaits("install", "saving")
            /\ UNCHANGED <<screen, cacheVars>>
       ELSE /\ UNCHANGED autoUpdate
            /\ Display
            /\ Returns("install")
    /\ UNCHANGED <<token, checker, showUpdateNotification, restVars>>

\* installBtnClick after saveSettings: stopUpdateChecker(), display()
InstallSaved ==
    /\ handlers["install"] = "saving"
    /\ checker' = StopUpdateChecker(checker)
    /\ Display
    /\ Returns("install")
    /\ UNCHANGED <<token, autoUpdate, showUpdateNotification, restVars>>

\* the refresh button: cache.invalidate(), display()
RefreshClicked ==
    /\ screen.page = "settings"
    /\ DisplayFrom(Invalidated([cache |-> cache, fetches |-> fetches,
                                served |-> served]))
    /\ UNCHANGED <<token, checker, handlers, autoUpdate,
                   showUpdateNotification, restVars>>

\* a fetchFn of the cache settles: resolved, its result becomes the entry;
\* rejected, the cache stays as it is
FetchSettles ==
    /\ \E f \in fetches :
         /\ fetches' = fetches \ {f}
         /\ \/ cache' = Stored(cache, f)
            \/ UNCHANGED cache
    /\ UNCHANGED <<served, token, checker, handlers, screen, autoUpdate,
                   showUpdateNotification, restVars>>

\* the settings tab was never opened and no token is stored
NoTabOpen ==
    /\ token = NoToken
    /\ checker = NoChecker
    /\ handlers = [h \in Handlers |-> "idle"]
    /\ screen = Closed
    /\ cache = EmptyCache
    /\ fetches = {}
    /\ served = NothingServed

\* onload: settings are loaded and, with a token, startUpdateChecker()
InitSettings ==
    /\ token \in Tokens \cup {NoToken}
    /\ autoUpdate \in BOOLEAN
    /\ showUpdateNotification \in BOOLEAN
    /\ checker = IF token # NoToken
                 THEN StartUpdateCheckerOn(NoChecker, autoUpdate)
                 ELSE NoChecker
    /\ handlers = [h \in Handlers |-> "idle"]
    /\ screen = Closed
    /\ cache = EmptyCache
    /\ fetches = {}
    /\ served = NothingServed
    /\ task = [c \in Callers |-> "idle"]
    /\ btnDisabled = [b \in Builds |-> FALSE]
    /\ updateCheckInterval = FALSE
    /\ currentVersion = "none"
    /\ notices = {}

----------------------------------------------------------------------------
(* validateToken: the length check, the retried remote call, the result *)

\* a token is a sequence of characters
Rep(c, n) == [i \in 1..n |-> c]
Letters16 == Rep("a", 16)

\* the tokens validateToken is called with: empty, 15, 16 and 17 letters,
\* 16 letters grouped by dashes, padded with blanks, led by a dash and a
\* blank, and 16 dashes
TokenInputs ==
    { <<>>, Rep("a", 15), Letters16, Rep("a", 17),
      Rep("a", 4) \o <<"-">> \o Rep("a", 4) \o <<"-">>
          \o Rep("a", 4) \o <<"-">> \o Rep("a", 4),
      <<" ">> \o Letters16 \o <<" ">>,
      <<"-", " ">> \o Letters16,
      Rep("-", 16) }

\* String.prototype.trim
RECURSIVE Trim(_)
Trim(t) ==
    IF t = <<>> THEN t
    ELSE IF Head(t) = " " THEN Trim(Tail(t))
    ELSE IF t[Len(t)] = " " THEN Trim(SubSeq(t, 1, Len(t) - 1))
    ELSE t

\* stripTokenDashes: token.trim().replace(/-/g, "")
StripTokenDashes(t) == SelectSeq(Trim(t), LAMBDA c : c # "-")

ToUpperCase(t) == [i \in 1..Len(t) |-> IF t[i] = "a" THEN "A" ELSE t[i]]

\* normalizeToken: stripTokenDashes(token).trim().toUpperCase()
NormalizeToken(t) == ToUpperCase(Trim(StripTokenDashes(t)))

\* Messages, by the kind of the error that was caught
MessageOf(kind) ==
    CASE kind = "Unauthorized" -> "Unauthorized"
      [] kind = "RateLimited" -> "RateLimited"
      [] OTHER -> "ServerError"

\* faulty variant: the catch handles an ApiException and rethrows the rest
ValidateOutcome_ApiOnly(res) ==
    IF ~res.raised
    THEN [raised |-> FALSE, isValid |-> TRUE, errorMessage |-> ""]
    ELSE [raised |-> res.is.kind \notin ApiErrors, isValid |-> FALSE,
          errorMessage |-> MessageOf(res.is.kind)]

\* the try / catch around retryWithBackoff: what validateToken ends with
ValidateOutcome(res) ==
    IF ~res.raised
    THEN [raised |-> FALSE, isValid |-> TRUE, errorMessage |-> ""]
    ELSE [raised |-> FALSE, isValid |-> FALSE,
          errorMessage |-> MessageOf(res.is.kind)]

\* validateToken up to its await: the length check, then retryWithBackoff
ValidateEnter ==
    /\ vtPc = "entry"
    /\ IF Len(NormalizeToken(vtToken)) # 16
       THEN /\ vtPc' = "returned"
            /\ vtResult' = Some([raised |-> FALSE, isValid |-> FALSE,
                                  errorMessage |-> "InvalidToken"])
            /\ UNCHANGED retryVars
       ELSE /\ vtPc' = "retrying"
            /\ rtCfg' = ValidateConfig
            /\ rtPc' = "call"
            /\ UNCHANGED <<vtResult, rtAttempt, rtLastError, rtDelay, rtCalls,
                           rtDecisions, rtSleeps, rtResult>>
    /\ UNCHANGED <<vtToken, trigVars, tabVars, upVars>>

\* retryWithBackoff returned or threw: validateToken returns its result
ValidateReturn ==
    /\ vtPc = "retrying"
    /\ rtPc \in {"returned", "raised"}
    /\ vtResult' = Some(ValidateOutcome(rtResult[1]))
    /\ vtPc' = IF ValidateOutcome(rtResult[1]).raised
               THEN "raised"
               ELSE "returned"
    /\ UNCHANGED <<vtToken, retryVars, trigVars, tabVars, upVars>>

\* validateToken is not being called
NoValidation ==
    /\ vtToken = <<>>
    /\ vtPc = "idle"
    /\ vtResult = Undefined

----------------------------------------------------------------------------
(* The upgrade task *)

Init ==
    /\ pc = "idle"
    /\ registry = <<>>
    /\ migrationsLoaded = FALSE
    /\ \E t \in Transitions : fromV = t[1] /\ toV = t[2]
    /\ manual \in BOOLEAN
    /\ matched = <<>>
    /\ taskIdx = 1
    /\ running = {}
    /\ taskFailed = {}
    /\ preRan = {}
    /\ postRan = {}
    /\ attempt = 0
    /\ lastError = "none"
    /\ artifact = NoArtifact
    /\ target \in InitialTargets
    /\ staging = Absent
    /\ backup = Absent
    /\ origTarget = target
    /\ hasBackup = FALSE
    /\ entryIdx = 1
    /\ thrown = "none"
    /\ fsOps = {}
    /\ fsFailed = {}
    /\ stages = {}
    /\ pluginEnabled \in {e \in BOOLEAN : e => target.exists}
    /\ manifestOf = ManifestIn(target)
    /\ errors = <<>>
    /\ NoCallerActive
    /\ NoRetryRunning
    /\ NoTabOpen
    /\ NoValidation

Next ==
    \/ \E q \in Qualifiers : RegisterMigration(q)
    \/ StartUpgrade
    \/ QueryPre
    \/ RunPreTask
    \/ TaskSettles
    \/ PreReturn
    \/ UpgradeEnter
    \/ DownloadAttempt
    \/ DownloadSleep
    \/ VerifyDigest
    \/ OpenArchive
    \/ MakeStaging
    \/ ExtractEntry
    \/ CopySettings
    \/ BackupExisting
    \/ SwapStaging
    \/ CleanBackup
    \/ Rollback
    \/ CleanupTemp
    \/ ReloadDisable
    \/ ReloadManifest
    \/ ReloadEnable
    \/ PostEnter
    \/ QueryPost
    \/ RunPostTask
    \/ PostReturn

Spec == Init /\ [][Next]_vars

----------------------------------------------------------------------------
(* The callers on their own *)

\* no upgrade task is being followed step by step
NoUpgradeRunning ==
    /\ pc = "idle"
    /\ registry = <<>>
    /\ migrationsLoaded = FALSE
    /\ fromV = UpQualifier.fromVersion /\ toV = UpQualifier.toVersion
    /\ manual = FALSE
    /\ matched = <<>>
    /\ taskIdx = 1
    /\ running = {}
    /\ taskFailed = {}
    /\ preRan = {}
    /\ postRan = {}
    /\ attempt = 0
    /\ lastError = "none"
    /\ artifact = NoArtifact
    /\ target = Absent
    /\ staging = Absent
    /\ backup = Absent
    /\ origTarget = Absent
    /\ hasBackup = FALSE
    /\ entryIdx = 1
    /\ thrown = "none"
    /\ fsOps = {}
    /\ fsFailed = {}
    /\ stages = {}
    /\ pluginEnabled = FALSE
    /\ manifestOf = ManifestIn(Absent)
    /\ errors = <<>>

InitC ==
    /\ NoUpgradeRunning /\ NoRetryRunning /\ NoTabOpen /\ NoValidation
    /\ InitCallers

NextC ==
    \/ \E b \in Builds : ClickInstall(b)
    \/ TimerTick
    \/ CheckForUpdates
    \/ \E c \in Callers : UpgradeDownload(c)
    \/ \E c \in Callers : UpgradeInstall(c)
    \/ \E b \in Builds : InstallBtnResolved(b)
    \/ ToggleAutoUpdate
    \/ ToggleUpdateNotification

SpecCallers == InitC /\ [][NextC]_vars

----------------------------------------------------------------------------
(* The registry on its own: any record, any transition, one query *)

\* the versions a query or a qualifier is made of
PlainVersions ==
    {Ver(0, 17, 0), Ver(0, 17, 4), Ver(0, 17, 5), Ver(0, 18, 0), Ver(0, 19, 0)}

QueryVersions ==
    PlainVersions \cup {Beta(Ver(0, 17, 4), 3), Beta(Ver(0, 18, 0), 2)}

\* the qualifiers another module can register
AnyQualifiers == [fromVersion : PlainVersions, toVersion : PlainVersions]

InitQ ==
    /\ pc = "idle"
    /\ registry = <<>>
    /\ migrationsLoaded = FALSE
    /\ fromV \in QueryVersions
    /\ toV \in QueryVersions
    /\ manual = FALSE
    /\ matched = <<>>
    /\ taskIdx = 1
    /\ running = {}
    /\ taskFailed = {}
    /\ preRan = {}
    /\ postRan = {}
    /\ attempt = 0
    /\ lastError = "none"
    /\ artifact = NoArtifact
    /\ target = Absent
    /\ staging = Absent
    /\ backup = Absent
    /\ origTarget = Absent
    /\ hasBackup = FALSE
    /\ entryIdx = 1
    /\ thrown = "none"
    /\ fsOps = {}
    /\ fsFailed = {}
    /\ stages = {}
    /\ pluginEnabled = FALSE
    /\ manifestOf = ManifestIn(Absent)
    /\ errors = <<>>
    /\ NoCallerActive
    /\ NoRetryRunning
    /\ NoTabOpen
    /\ NoValidation

NextQ ==
    \/ \E q \in AnyQualifiers : RegisterMigration(q)
    \/ StartUpgrade
    \/ QueryPre

SpecQuery == InitQ /\ [][NextQ]_vars

----------------------------------------------------------------------------
(* retryWithBackoff on its own, and as downloadBuild calls it *)

InitR ==
    /\ NoUpgradeRunning /\ NoCallerActive /\ NoTabOpen /\ NoValidation
    /\ InitRetry(GenericConfigs)

InitD ==
    /\ NoUpgradeRunning /\ NoCallerActive /\ NoTabOpen /\ NoValidation
    /\ InitRetry(DownloadConfigs)

NextR ==
    \/ RetryCall
    \/ RetrySleep

SpecRetry == InitR /\ [][NextR]_vars

SpecDownload == InitD /\ [][NextR]_vars

\* a pending call of fn is answered and a pending sleep elapses
SpecDownloadFair == SpecDownload /\ WF_vars(NextR)

----------------------------------------------------------------------------
(* The settings tab on its own: every handler that starts or stops the      *)
(* update-check timer                                                      *)

InitS == NoUpgradeRunning /\ NoRetryRunning /\ NoValidation /\ InitSettings

NextS ==
    \/ DisplayTab
    \/ RemoveTokenClicked
    \/ RemoveTokenSaved
    \/ \E h \in {"setToken", "setup"} : SetTokenClicked(h)
    \/ \E h \in {"setToken", "setup"} : TokenValidated(h)
    \/ \E h \in {"setToken", "setup"} : TokenSaved(h)
    \/ AutoUpdateToggled
    \/ AutoUpdateSaved
    \/ NotificationToggled
    \/ NotificationSaved
    \/ IntervalChanged
    \/ IntervalSaved
    \/ InstallClicked
    \/ InstallUpgraded
    \/ InstallSaved

SpecSettings == InitS /\ [][NextS]_vars

----------------------------------------------------------------------------
(* The response cache on its own: the tab is rendered, the refresh button  *)
(* is pressed and the fetches settle, under the default options            *)

\* the plugin is loaded with the default options (DEFAULT_SETTINGS)
InitK ==
    /\ InitS
    /\ autoUpdate
    /\ showUpdateNotification

NextK ==
    \/ DisplayTab
    \/ RefreshClicked
    \/ FetchSettles

SpecCache == InitK /\ [][NextK]_vars

----------------------------------------------------------------------------
(* The cache while the token changes: the handlers that remove and set the *)
(* token, the rendering of the tab, and the fetches it starts              *)

NextT ==
    \/ DisplayTab
    \/ RemoveTokenClicked
    \/ RemoveTokenSaved
    \/ \E h \in {"setToken", "setup"} : SetTokenClicked(h)
    \/ \E h \in {"setToken", "setup"} : TokenValidated(h)
    \/ \E h \in {"setToken", "setup"} : TokenSaved(h)
    \/ FetchSettles

SpecToken == InitK /\ [][NextT]_vars

----------------------------------------------------------------------------
(* validateToken on its own: any of the tokens, any answers of the server *)

InitV ==
    /\ NoUpgradeRunning /\ NoCallerActive /\ NoTabOpen /\ NoRetryRunning
    /\ vtToken \in TokenInputs
    /\ vtPc = "entry"
    /\ vtResult = Undefined

NextV ==
    \/ ValidateEnter
    \/ RetryCall
    \/ RetrySleep
    \/ ValidateReturn

\* a pending answer arrives, a pending sleep elapses, a settled promise is
\* followed by its continuation
SpecValidate == InitV /\ [][NextV]_vars /\ WF_vars(NextV)

----------------------------------------------------------------------------
(* Vocabulary of the properties *)

\* verifyAndUpgrade is between its entry and its return or throw
InstallRunning ==
    pc \in {"open", "mkdir", "extract", "backup", "swap", "cleanBackup",
            "rollback", "cleanupTemp"}

\* verifyAndUpgrade was called and has returned or thrown
InstallFinished == "verify" \in stages /\ ~InstallRunning

\* the complete new install: every extracted file plus the prior data.json
NewInstall == Dir(ExtractedFiles(artifact.entries) \cup SettingsOf(origTarget))

\* the swap rename was done: the install committed
Committed == "renameSwap" \in fsOps \ fsFailed

Range(seq) == {seq[i] : i \in 1..Len(seq)}

\* the records the transition matches, as positions of the loaded registry
MatchedRecords == Range(QueryMigrations(registry, fromV, toV))

PreSwapOps == {"mkdir", "write", "copy", "renameBackup"}

----------------------------------------------------------------------------
(* Atomic install *)

\* C1 (as stated): once verifyAndUpgrade has returned or thrown, whatever
\* filesystem steps were rejected, the target is the complete prior install
\* (absent if there was none) or the complete new install.
C1_AsStated == InstallFinished => target \in {origTarget, NewInstall}

\* C1 (amended): once verifyAndUpgrade has returned or thrown, the target is
\* the complete prior install (absent if there was none), or the complete
\* new install, or, only when both the swap rename and the rollback rename
\* were rejected, absent with the complete prior install at the backup path.
\* It is never partially written.
C1_TargetWholeOrMovedToBackup ==
    InstallFinished =>
        \/ target \in {origTarget, NewInstall}
        \/ /\ target = Absent
           /\ backup = origTarget
           /\ {"renameSwap", "renameRollback"} \subseteq fsFailed

C1_Witness ==
    /\ pc = "done"
    /\ origTarget.exists
    /\ {"renameSwap", "renameRollback"} \subseteq fsFailed
    /\ target = Absent
    /\ backup = origTarget

C3_AsStated == InstallFinished => ~staging.exists /\ ~backup.exists

\* C3 (amended): once verifyAndUpgrade has returned or thrown, the staging
\* directory exists only if its removal was rejected, and the backup
\* directory exists only if its removal was rejected or the rollback rename
\* was rejected (it then holds the prior install).
C3_NoDanglingUnlessRemovalRejected ==
    InstallFinished =>
        /\ staging.exists => "rmdirStaging" \in fsFailed
        /\ backup.exists =>
              \/ "rmdirBackup" \in fsFailed
              \/ "renameRollback" \in fsFailed /\ backup = origTarget

C3_Witness ==
    /\ pc = "done"
    /\ "write" \in fsFailed
    /\ "rmdirStaging" \in fsOps \ fsFailed
    /\ ~staging.exists
    /\ ~backup.exists

\* C4: when the digest of the bytes differs from the expected one, the
\* archive is never opened, no filesystem mutation is attempted, target,
\* staging and backup stay as they were, nothing after verification runs and
\* the call ends with the integrity error.
C4_MismatchAbortsBeforeAnyMutation ==
    ("verify" \in stages /\ ~artifact.digestOk) =>
        /\ "open" \notin stages
        /\ "reload" \notin stages
        /\ fsOps = {}
        /\ target = origTarget /\ staging = Absent /\ backup = Absent
        /\ pc \in {"cleanupTemp", "done"}
        /\ pc = "done" => errors = <<"IntegrityMismatch">>

C4_Witness ==
    /\ pc = "done"
    /\ "verify" \in stages
    /\ ~artifact.digestOk
    /\ origTarget.exists
    /\ errors = <<"IntegrityMismatch">>

\* C5: a verified archive that opens with zero entries fails with the
\* malformed-artifact error before the staging directory is created and
\* before the install is backed up or swapped: no filesystem mutation is
\* attempted and target and backup are as before the call.
C5_EmptyArchiveRejectedBeforeStaging ==
    (/\ "open" \in stages
     /\ artifact.digestOk /\ artifact.zipOk /\ Len(artifact.entries) = 0) =>
        /\ fsOps = {}
        /\ target = origTarget /\ staging = Absent /\ backup = Absent
        /\ pc \in {"cleanupTemp", "done"}
        /\ pc = "done" => errors = <<"MalformedArtifact">>

C5_Witness ==
    /\ pc = "done"
    /\ "open" \in stages
    /\ artifact.digestOk /\ artifact.zipOk /\ Len(artifact.entries) = 0
    /\ origTarget.exists
    /\ errors = <<"MalformedArtifact">>

\* C6: when a step before the swap was rejected (mkdir of staging, a write
\* of an entry, the copy of data.json, the rename of target to backup), the
\* swap rename is never attempted, the target is as it was before the call,
\* and the call ends by raising.
C6_PreSwapFailureLeavesTarget ==
    (fsFailed \cap PreSwapOps # {}) =>
        /\ "renameSwap" \notin fsOps
        /\ target = origTarget
        /\ pc \in {"cleanupTemp", "done"}
        /\ pc = "done" => Len(errors) = 1

C6_Witness ==
    /\ pc = "done"
    /\ "renameBackup" \in fsFailed
    /\ origTarget.exists
    /\ target = origTarget
    /\ staging.exists

----------------------------------------------------------------------------
(* Stage ordering of the upgrade *)

\* downloadBuild has thrown: the last remote call failed and was not retried
DownloadFailed == pc = "done" /\ lastError # "none"

\* verifyAndUpgrade is throwing or has thrown
InstallFailed == thrown # "none"

\* C7: in upgrade() a stage starts only after the previous one succeeded.
\* After a failed download nothing is verified, no filesystem mutation is
\* attempted and the host is not asked to reload; after a failed
\* verification or install the host is not asked to reload; verification
\* starts only after a successful download; a failed upgrade hands the
\* caller exactly one error.
C7_FailureShortCircuits ==
    /\ DownloadFailed =>
          /\ "verify" \notin stages
          /\ fsOps = {}
          /\ "reload" \notin stages
          /\ Len(errors) = 1
    /\ InstallFailed =>
          /\ "reload" \notin stages
          /\ pc = "done" => Len(errors) = 1
    /\ "verify" \in stages => "download" \in stages /\ lastError = "none"
    /\ "reload" \in stages => "verify" \in stages /\ ~InstallFailed
    /\ Len(errors) <= 1
    /\ Len(errors) = 1 => pc = "done"

C7_Witness ==
    /\ DownloadFailed
    /\ attempt > 0
    /\ origTarget.exists
    /\ pluginEnabled
    /\ Len(errors) = 1

\* C8: the host reload (disablePlugin, loadManifest, enablePluginAndSave) is
\* requested only after the swap rename has committed the new install, and
\* a failing reload leaves the new install at the target: no rollback
\* rename is attempted after the commit.
C8_ReloadOnlyAfterCommit ==
    "reload" \in stages =>
        /\ Committed
        /\ target = NewInstall
        /\ "renameRollback" \notin fsOps
        /\ errors = <<"ReloadFailed">> => pc = "done" /\ target = NewInstall

C8_Witness ==
    /\ pc = "done"
    /\ errors = <<"ReloadFailed">>
    /\ origTarget.exists
    /\ target = NewInstall
    /\ manifestOf = "old"

----------------------------------------------------------------------------
(* Serialized callers *)

\* the callers that are inside upgrade()
InFlight == {c \in Callers : task[c] \in {"download", "install"}}

\* C11: under every interleaving of install-button clicks and timer ticks,
\* at most one upgrade is in flight at any time: while one caller is inside
\* upgrade(), no second one enters it.
C11_AtMostOneUpgradeInFlight == Cardinality(InFlight) <= 1

----------------------------------------------------------------------------
(* retryWithBackoff *)

\* retryWithBackoff has returned or thrown
RetryEnded == rtPc \in {"returned", "raised"}

\* some decision of the decider so far was {retry: false}
Vetoed == \E i \in DOMAIN rtDecisions : ~rtDecisions[i].retry

\* the error the most recent call of fn threw, as makeError hands it on
LastFailure == MakeError(ErrorOf(rtCalls[Len(rtCalls)], Len(rtCalls)))

\* C12: with maxRetries = n >= 0, fn is never called more than n+1 times,
\* whatever fn and the decider do; when the call raises without any veto of
\* the decider (fn failed on every call), fn was called exactly n+1 times;
\* with n = 0 the call ends after exactly one call of fn and never sleeps.
C12_AtMostMaxRetriesPlusOneCalls ==
    /\ Len(rtCalls) <= rtCfg.maxRetries + 1
    /\ (rtPc = "raised" /\ ~Vetoed) => Len(rtCalls) = rtCfg.maxRetries + 1
    /\ rtCfg.maxRetries = 0 =>
         /\ rtSleeps = <<>>
         /\ rtPc # "sleep"
         /\ RetryEnded => Len(rtCalls) = 1

C12_Witness ==
    /\ rtPc = "raised"
    /\ ~Vetoed
    /\ Len(rtDecisions) = MaxRetriesBound
    /\ Len(rtCalls) = MaxRetriesBound + 1

\* C13: when the decider answers the first failure with {retry: false},
\* whatever maxRetries is, fn was called exactly once, nothing was slept,
\* and the call raises that first failure.
C13_FirstVetoStopsAfterOneCall ==
    (Len(rtDecisions) >= 1 /\ ~rtDecisions[1].retry) =>
        /\ rtPc = "raised"
        /\ Len(rtCalls) = 1
        /\ rtSleeps = <<>>
        /\ rtResult = Some([raised |-> TRUE,
                            is |-> MakeError(ErrorOf(rtCalls[1], 1))])

C13_Witness ==
    /\ Len(rtDecisions) = 1
    /\ ~rtDecisions[1].retry
    /\ rtCfg.maxRetries = MaxRetriesBound
    /\ rtPc = "raised"

\* C14: whenever the call raises, after maxRetries were exhausted or after
\* a veto of the decider, the most recent call of fn failed and the error
\* raised is the one that call threw, not the error of an earlier call.
C14_RaisesMostRecentFailure ==
    rtPc = "raised" =>
        /\ ~rtCalls[Len(rtCalls)].ok
        /\ rtResult = Some([raised |-> TRUE, is |-> LastFailure])

C14_Witness ==
    /\ rtPc = "raised"
    /\ Len(rtCalls) = 3
    /\ rtCalls[1].kind # rtCalls[3].kind
    /\ rtResult = Some([raised |-> TRUE, is |-> LastFailure])

----------------------------------------------------------------------------
(* The artifact downloader *)

RECURSIVE SumSeq(_)
SumSeq(seq) == IF seq = <<>> THEN 0 ELSE Head(seq) + SumSeq(Tail(seq))

\* the i-th remote call was answered 202 with a retry_after of h seconds
NotReadyYet(i, h) ==
    /\ rtCalls[i].kind = "BuildNotReady"
    /\ rtCalls[i].ctx = Some(h)

\* the i-th remote call failed while retries remained, and the sleep that
\* follows it, done or pending, lasts `delay` milliseconds
RetriedAfter(i, delay) ==
    IF i <= Len(rtSleeps)
    THEN rtSleeps[i] = delay
    ELSE rtPc = "sleep" /\ rtDelay = delay

\* the i-th remote call was the last one: downloadBuild threw what that
\* call threw, and no sleep or call followed it
EndedAt(i) ==
    /\ i = Len(rtCalls)
    /\ Len(rtSleeps) = i - 1
    /\ rtPc = "raised"
    /\ rtResult = Some([raised |-> TRUE, is |-> ErrorOf(rtCalls[i], i)])

C16_ManualNotReadyFailsFast ==
    rtCfg.manual =>
        \A i \in 1..Len(rtCalls) :
            rtCalls[i].kind = "BuildNotReady" => EndedAt(i)

C16_Witness ==
    /\ rtCfg.manual
    /\ Len(rtCalls) = 3
    /\ NotReadyYet(3, 2)
    /\ EndedAt(3)

\* C17: a failure classified as server error, unknown error or rate-limited,
\* received while retries remain, is followed by a sleep of the default
\* exponential delay, initialDelay * 2^attempt, and then by a retry.
C17_TransientKindsRetriedWithBackoff ==
    \A i \in 1..Len(rtCalls) :
        ( /\ rtCalls[i].kind \in {"ServerError", "UnknownError", "RateLimited"}
          /\ i <= rtCfg.maxRetries ) =>
            RetriedAfter(i, DefaultDelay(rtCfg, i - 1))

\* C18: an unauthorized or not-found failure is never retried: no sleep and
\* no remote call follows it, and the caller receives that error.
C18_PermanentKindsNeverRetried ==
    \A i \in 1..Len(rtCalls) :
        rtCalls[i].kind \in {"Unauthorized", "NotFound"} => EndedAt(i)

C18_Witness ==
    /\ Len(rtCalls) = 2
    /\ rtCalls[1].kind = "ServerError"
    /\ rtCalls[2].kind = "NotFound"
    /\ EndedAt(2)

\* the i-th remote call was answered with status 200 but without the
\* application/zip content type or without the x-sha256 header
Malformed200(i) ==
    /\ rtCalls[i].reply[1].status = 200
    /\ ~(rtCalls[i].reply[1].zip /\ rtCalls[i].reply[1].sha256)

\* C19: a status-200 response without the recognized content type or
\* without the digest header is a failure that is not retried: no remote
\* call follows it.
C19_MalformedResponseNotRetried ==
    \A i \in 1..Len(rtCalls) :
        Malformed200(i) => (i = Len(rtCalls) /\ rtPc = "raised")

----------------------------------------------------------------------------
(* Migration matching *)

\* a version without suffix as one number, for comparing by magnitude
Magnitude(v) == (v.core[1] * 100 + v.core[2]) * 100 + v.core[3]

\* queryMigrations has resolved
Queried == pc = "pre"

\* the record at registry position i is in the result of the query
Returned(i) == \E k \in 1..Len(matched) : matched[k] = i

\* the query asked for the transition (from, to)
Asked(from, to) == Queried /\ fromV = from /\ toV = to

\* C20: for a transition that, once normalized, is an upgrade (from < to),
\* queryMigrations returns a registered record exactly when the record's
\* qualifier is itself an upgrade (q.from < q.to) and from <= q.from and
\* to >= q.to; with the record {0.17.4 -> 0.18.0} registered, the
\* transition (0.17.0, 0.19.0) returns it and (0.17.5, 0.18.0) does not.
C20_UpgradeMatchSpansRecord ==
    Queried =>
        LET from == Magnitude(StripBeta(fromV))
            to == Magnitude(StripBeta(toV))
        IN /\ from < to =>
                \A i \in 1..Len(registry) :
                    LET qFrom == Magnitude(registry[i].fromVersion)
                        qTo == Magnitude(registry[i].toVersion)
                    IN Returned(i) <=>
                           (qFrom < qTo /\ from <= qFrom /\ to >= qTo)
           /\ \A i \in 1..Len(registry) :
                  registry[i] = UpQualifier =>
                      /\ Asked(Ver(0, 17, 0), Ver(0, 19, 0)) => Returned(i)
                      /\ Asked(Ver(0, 17, 5), Ver(0, 18, 0)) => ~Returned(i)

C20_Witness ==
    /\ Asked(Ver(0, 17, 0), Ver(0, 19, 0))
    /\ Len(registry) = 3
    /\ registry[1] = [fromVersion |-> Ver(0, 17, 5), toVersion |-> Ver(0, 19, 0)]
    /\ matched = <<1, 2>>

\* the record at registry position i bridges downwards or nowhere
NotAnUpgrade(i) ==
    Magnitude(registry[i].fromVersion) >= Magnitude(registry[i].toVersion)

\* C21: for a transition that, once normalized, is not an upgrade
\* (from >= to), queryMigrations returns a registered record exactly when
\* the record's qualifier is itself not an upgrade and from >= q.from and
\* to <= q.to; whatever the transition, a record whose direction differs
\* from the requested one is never returned.
C21_DowngradeMatchWithinRecord ==
    Queried =>
        LET from == Magnitude(StripBeta(fromV))
            to == Magnitude(StripBeta(toV))
        IN \A i \in 1..Len(registry) :
               LET qFrom == Magnitude(registry[i].fromVersion)
                   qTo == Magnitude(registry[i].toVersion)
               IN /\ from >= to =>
                       (Returned(i) <=>
                            (NotAnUpgrade(i) /\ from >= qFrom /\ to <= qTo))
                  /\ Returned(i) => ((from >= to) <=> NotAnUpgrade(i))

C21_Witness ==
    /\ Asked(Ver(0, 19, 0), Ver(0, 17, 0))
    /\ Len(registry) = 3
    /\ registry[1] = [fromVersion |-> Ver(0, 17, 0), toVersion |-> Ver(0, 18, 0)]
    /\ matched = <<3>>

\* a version with its -beta-N suffix removed
Unsuffixed(v) == [core |-> v.core, beta |-> 0]

\* C22: a trailing -beta-N on either version of the transition does not
\* change the result: the records returned are those the filter keeps for
\* the unsuffixed pair, e.g. (0.17.4-beta-3, 0.18.0) resolves as
\* (0.17.4, 0.18.0).
C22_BetaSuffixIgnored ==
    Queried =>
        \A i \in 1..Len(registry) :
            Returned(i) <=>
                MigrationMatches(registry[i], Unsuffixed(fromV), Unsuffixed(toV))

C22_Witness ==
    /\ Asked(Beta(Ver(0, 17, 4), 3), Beta(Ver(0, 18, 0), 2))
    /\ Len(registry) = 2
    /\ matched = <<1>>

----------------------------------------------------------------------------
(* The periodic update check *)

\* C23: with a token stored, auto update off and "Show update
\* notification" on, the periodic update check keeps running: its interval
\* is registered, so that a differing latest tag is announced.
C23_NotificationCheckKeepsRunning ==
    (~autoUpdate /\ showUpdateNotification) => updateCheckInterval

----------------------------------------------------------------------------
(* Backoff delays *)

\* the sleeps done so far plus the one pending, in order
SleepsAsked == IF rtPc = "sleep" THEN Append(rtSleeps, rtDelay) ELSE rtSleeps

\* C24: without a decider, the sleep that follows the failure of attempt k
\* (k from 0, k < maxRetries) lasts exactly initialDelay * 2^k, and no
\* sleep follows the final attempt.
C24_ExponentialBackoffWithoutDecider ==
    rtCfg.shouldRetry = "absent" =>
        /\ \A i \in 1..Len(SleepsAsked) :
               SleepsAsked[i] = rtCfg.initialDelay * 2^(i - 1)
        /\ Len(SleepsAsked) <= rtCfg.maxRetries
        /\ RetryEnded => Len(rtSleeps) = Len(rtCalls) - 1

C24_Witness ==
    /\ rtCfg.shouldRetry = "absent"
    /\ rtPc = "raised"
    /\ rtSleeps = <<1000, 2000, 4000>>
    /\ Len(rtCalls) = 4

\* C25: when the decider asks for a retry with a delay d, the sleep before
\* the next attempt lasts exactly d, d = 0 included; the sleep lasts
\* initialDelay * 2^attempt only when the decision carries no delay.
C25_DeciderDelayHonoured ==
    rtCfg.shouldRetry = "any" =>
        /\ Len(SleepsAsked) <= Len(rtDecisions)
        /\ \A i \in 1..Len(SleepsAsked) :
               /\ rtDecisions[i].retry
               /\ SleepsAsked[i] =
                      IF rtDecisions[i].delay = Undefined
                      THEN rtCfg.initialDelay * 2^(i - 1)
                      ELSE rtDecisions[i].delay[1]

C25_Witness ==
    /\ rtCfg.shouldRetry = "any"
    /\ rtSleeps = <<0, 2000, 700>>
    /\ rtDecisions[1].delay = Some(0)

----------------------------------------------------------------------------
(* Backup, settings and cleanup *)

\* C26: when an install exists, the backup step moves it: between the
\* backup step and the swap the target path does not exist and the backup
\* path holds the prior install, so the swap renames staging onto an absent
\* target.
C26_BackupMovesInstall ==
    pc = "swap" =>
        /\ ~target.exists
        /\ origTarget.exists => (hasBackup /\ backup = origTarget)

C26_Witness ==
    /\ pc = "swap"
    /\ hasBackup
    /\ backup = OldInstall(TRUE)
    /\ ~target.exists

\* verifyAndUpgrade has returned without throwing
InstallSucceeded == Committed /\ ~InstallRunning

\* C27: when the existing install has a data.json, after a successful
\* install the target holds a data.json of the same content together with
\* every file extracted from the new artifact.
C27_SettingsSurviveInstall ==
    (InstallSucceeded /\ File("data.json", "cfg") \in origTarget.files) =>
        /\ File("data.json", "cfg") \in target.files
        /\ \A i \in 1..Len(artifact.entries) :
               ~artifact.entries[i].dir =>
                   File(artifact.entries[i].name, "new") \in target.files

C27_Witness ==
    /\ InstallSucceeded
    /\ File("data.json", "cfg") \in origTarget.files
    /\ Len(artifact.entries) = 3
    /\ Cardinality(target.files) = 3

\* the errors verifyAndUpgrade throws
InstallErrors ==
    {"IntegrityMismatch", "MalformedArtifact", "InstallFailed", "UpgradeFailed"}

\* the error verifyAndUpgrade's caller receives for what was thrown inside
OriginalError ==
    IF thrown \in {"IntegrityMismatch", "MalformedArtifact", "InstallFailed"}
    THEN thrown
    ELSE "UpgradeFailed"

\* C28: a rejected removal of the backup or of the staging directory does
\* not change the outcome: after a successful swap whose backup could not
\* be removed the install returns without an error, and after a failed
\* install whose staging directory could not be removed the caller receives
\* the original install error.
C28_CleanupFailureKeepsOutcome ==
    /\ (Committed /\ "rmdirBackup" \in fsFailed) =>
           /\ thrown = "none"
           /\ pc # "cleanupTemp"
           /\ \A i \in 1..Len(errors) : errors[i] \notin InstallErrors
    /\ (pc = "done" /\ thrown # "none" /\ "rmdirStaging" \in fsFailed) =>
           errors = <<OriginalError>>

C28_Witness ==
    /\ Committed
    /\ "rmdirBackup" \in fsFailed
    /\ backup.exists
    /\ pc = "upgraded"

----------------------------------------------------------------------------
(* Order and multiplicity of the matched records *)

\* C29: whatever was registered and whatever the transition, the records
\* queryMigrations returns are all the matching ones, each once, in the
\* order in which they were registered.
C29_RegistrationOrderKept ==
    Queried =>
        /\ \A j, k \in 1..Len(matched) : j < k => matched[j] < matched[k]
        /\ \A i \in 1..Len(registry) :
               MigrationMatches(registry[i], Unsuffixed(fromV), Unsuffixed(toV))
                   => Returned(i)

C29_Witness ==
    /\ Asked(Ver(0, 17, 0), Ver(0, 19, 0))
    /\ registry[1] = [fromVersion |-> Ver(0, 18, 0), toVersion |-> Ver(0, 19, 0)]
    /\ matched = <<1, 2>>

\* how many positions of the sequence seq hold a record of qualifier q
Copies(seq, q) == Cardinality({i \in 1..Len(seq) : seq[i] = q})

\* the registry positions a query returned, as the records held there
MatchedQualifiers == [k \in 1..Len(matched) |-> registry[matched[k]]]

\* every record held before the step is still held, at its position
RegistryExtended ==
    /\ Len(registry') >= Len(registry)
    /\ \A i \in 1..Len(registry) : registry'[i] = registry[i]

\* the step is the import of the migrations module
ModuleImported == ~migrationsLoaded /\ migrationsLoaded'

\* C30: a registration never overwrites or removes an earlier record, also
\* when both have the same qualifier: the import of the migrations module
\* adds its two records whatever is registered already; a record held k
\* times is returned k times by every query it matches, and its task runs
\* k times in the phase.
C30_DuplicatesKept ==
    /\ [][ /\ RegistryExtended
           /\ ModuleImported => registry' = registry \o ModuleMigrations
         ]_vars
    /\ [](migrationsLoaded =>
            \A q \in Qualifiers :
                Copies(MatchedQualifiers, q) =
                    IF MigrationMatches(q, Unsuffixed(fromV), Unsuffixed(toV))
                    THEN Copies(registry, q)
                    ELSE 0)
    /\ [](pc = "upgrade" =>
            \A q \in Qualifiers :
                Cardinality({i \in preRan : registry[i] = q}) =
                    Copies(MatchedQualifiers, q))

C30_Witness ==
    /\ pc = "upgrade"
    /\ registry = <<UpQualifier, UpQualifier, DownQualifier>>
    /\ preRan = {1, 2}

----------------------------------------------------------------------------
(* Task runners: sequencing and failure *)

\* a step in which a task runner calls the next matched task
TaskStarts == taskIdx' = taskIdx + 1

\* C31: within a phase the matched tasks run one after another: at most one
\* task is in progress at any time, a task is called only when no task is in
\* progress, tasks are called in the order of the matched records, and a
\* runner returns only when none of its tasks is in progress.
C31_TasksRunOneAtATime ==
    /\ [](Cardinality(running) <= 1)
    /\ [](running \subseteq {taskIdx - 1})
    /\ [][TaskStarts => running = {} /\ running' = {taskIdx}]_vars
    /\ [](pc \notin {"pre", "post"} => running = {})

C31_Witness ==
    /\ pc = "post"
    /\ Len(matched) = 2
    /\ running = {2}
    /\ Cardinality(preRan) = 2

\* C32: once a task of a phase has failed, no later task of that phase has
\* been called, no task is in progress, the failure is the last task outcome of
\* the upgrade, and the caller has received the failure as the upgrade's
\* last error.
C32_FailedTaskEndsPhase ==
    \A f \in taskFailed :
        /\ taskFailed = {f}
        /\ pc = "done"
        /\ running = {}
        /\ taskIdx = f.at + 1
        /\ errors # <<>>
        /\ errors[Len(errors)] = "MigrationFailed"
        /\ f.phase = "pre" => postRan = {} /\ "download" \notin stages

C32_Witness ==
    /\ taskFailed = {[phase |-> "pre", at |-> 1]}
    /\ Len(matched) = 2
    /\ Cardinality(preRan) = 1

----------------------------------------------------------------------------
(* downloadBuild: termination and the not-ready-yet delay *)

\* every remote call so far was answered 202 not-ready-yet
AlwaysNotReady == \A i \in 1..Len(rtCalls) : rtCalls[i].kind = "BuildNotReady"

\* C33: downloadBuild never makes more than maxRetries + 1 = 6 remote calls
\* and, every pending response arriving and every pending sleep elapsing, it
\* ends (returns or raises) whatever the server answers, a server that
\* answers not-ready-yet forever in non-manual mode included.
C33_DownloadTerminatesWithinSixCalls ==
    /\ [](Len(rtCalls) <= 6)
    /\ [](rtPc # "call" => Len(rtCalls) >= 1)
    /\ <>RetryEnded
    /\ [][RetryEnded => UNCHANGED vars]_vars

C33_Witness ==
    /\ ~rtCfg.manual
    /\ Len(rtCalls) = 6
    /\ AlwaysNotReady
    /\ rtPc = "raised"

\* the i-th remote call was answered 202 without a usable retry_after
NotReadyUnhinted(i) ==
    /\ rtCalls[i].kind = "BuildNotReady"
    /\ rtCalls[i].ctx \in {Undefined, Some(0)}

\* C34: in a non-manual download, the sleep that follows a not-ready-yet
\* response received while retries remain lasts retry_after * 1000
\* milliseconds when retry_after is a positive number of seconds, and the
\* fixed 1000 ms when retry_after is 0 or missing, whatever the attempt
\* number; it is never zero.
C34_NotReadyDelayInMilliseconds ==
    ~rtCfg.manual =>
        \A i \in 1..Len(rtCalls) :
            (rtCalls[i].kind = "BuildNotReady" /\ i <= rtCfg.maxRetries) =>
                /\ \A h \in 1..2 : NotReadyYet(i, h) => RetriedAfter(i, h * 1000)
                /\ NotReadyUnhinted(i) => RetriedAfter(i, RETRY_DELAY)
                /\ ~RetriedAfter(i, 0)

C34_Witness ==
    /\ ~rtCfg.manual
    /\ Len(rtCalls) = 4
    /\ rtCalls[1].kind = "BuildNotReady" /\ rtCalls[1].ctx = Undefined
    /\ rtCalls[2].kind = "BuildNotReady" /\ rtCalls[2].ctx = Some(0)
    /\ NotReadyYet(3, 2)
    /\ rtSleeps = <<1000, 1000, 2000>>
    /\ DefaultDelay(rtCfg, 1) = 2000

----------------------------------------------------------------------------
(* queryMigrations: a transition between equal versions *)

\* the transition's normalized endpoints are the same version
SameRelease == StripBeta(fromV) = StripBeta(toV)

\* C35: for a transition whose normalized from and to versions are equal,
\* every record the query returns has a qualifier with equal endpoints: no
\* record whose qualifier endpoints differ is returned, the two records of
\* the migrations module among them.
C35_EqualVersionsMatchNoSpanningRecord ==
    (Queried /\ SameRelease) =>
        /\ \A k \in 1..Len(matched) :
              registry[matched[k]].fromVersion = registry[matched[k]].toVersion
        /\ \A i \in 1..Len(registry) :
              registry[i] \in Qualifiers => ~Returned(i)

C35_Witness ==
    /\ Queried
    /\ SameRelease
    /\ fromV # toV
    /\ Len(registry) = 3
    /\ registry[1].fromVersion = StripBeta(fromV)
    /\ registry[1].toVersion = StripBeta(fromV)
    /\ matched = <<1>>

----------------------------------------------------------------------------
(* The update-check timer *)

\* the intervals that were set, by the number setInterval returned
IntervalsSet == 1..checker.count

\* C36: after any sequence of startUpdateChecker and stopUpdateChecker
\* calls at most one interval is active: every interval that was set and
\* is not the recorded one has been cleared, and while none is recorded
\* none is active.
C36_AtMostOneIntervalActive ==
    /\ Cardinality(checker.active) <= 1
    /\ \A id \in IntervalsSet :
          id # checker.recorded => id \notin checker.active
    /\ checker.recorded # 0 => checker.recorded \in checker.active

C36_Witness ==
    /\ checker.count = 3
    /\ checker.recorded = 3
    /\ checker.active = {3}

\* no handler of the settings tab or of the setup link is mid-execution
Quiescent == Busy = {}

TimerActive == checker.active # {}

\* C37: whenever no handler is mid-execution, the update-check timer is
\* active exactly when a token is stored and autoUpdate is on.
C37_TimerTracksTokenAndAutoUpdate ==
    Quiescent => (TimerActive <=> (token # NoToken /\ autoUpdate))

----------------------------------------------------------------------------
(* The response cache *)

Kinds == {"subscription", "builds"}

\* C38: no entry the cache returns holds data of a fetch that was under
\* way when invalidate() was called: such a fetch does not write its
\* result into the cache.
C38_NoReadOfInvalidatedData ==
    /\ \A k \in Kinds : served[k] # Undefined => ~served[k][1].data.old
    /\ cache.subscription # Undefined => ~cache.subscription[1].old
    /\ \A t \in Tokens : cache.builds[t] # Undefined => ~cache.builds[t][1].old

\* C39: the subscription the cache returns was fetched with the token that
\* is stored in the settings when it is returned.
C39_SubscriptionOfStoredToken ==
    served.subscription # Undefined =>
        served.subscription[1].data.of = served.subscription[1].for

----------------------------------------------------------------------------
(* validateToken *)

\* validateToken has returned a result value to its caller
Validated == vtPc = "returned" /\ vtResult # Undefined /\ ~vtResult[1].raised

\* the i-th remote call was answered unauthorized, or 200 with a
\* subscription that is not valid
Refused(i) == rtCalls[i].kind = "Unauthorized"

\* C40: validateToken never raises and, every pending answer arriving, it
\* returns a result value; a token whose normalized form is not exactly 16
\* characters long is answered invalid without any remote call; an
\* unauthorized or not-valid answer is the last remote call and the result
\* is invalid; at most 6 remote calls are made.
C40_ValidateTokenAlwaysReturns ==
    /\ [](vtPc # "raised")
    /\ <>Validated
    /\ [](Len(NormalizeToken(vtToken)) # 16 =>
            /\ rtCalls = <<>>
            /\ vtPc = "returned" =>
                 vtResult = Some([raised |-> FALSE, isValid |-> FALSE,
                                  errorMessage |-> "InvalidToken"]))
    /\ [](\A i \in 1..Len(rtCalls) :
            Refused(i) =>
                /\ i = Len(rtCalls)
                /\ rtPc = "raised"
                /\ Len(rtSleeps) = i - 1
                /\ vtPc = "returned" =>
                     /\ ~vtResult[1].isValid
                     /\ vtResult[1].errorMessage = "Unauthorized")
    /\ [](Len(rtCalls) <= ValidateMaxRetries + 1)
    /\ []((Validated /\ vtResult[1].isValid) =>
            /\ rtCalls # <<>>
            /\ rtCalls[Len(rtCalls)].reply = Some([status |-> 200,
                                                   body |-> "valid"]))

C40_Witness ==
    /\ Validated
    /\ Len(vtToken) = 19
    /\ Len(rtCalls) = 6
    /\ rtCalls[5].kind = "RateLimited"
    /\ rtCalls[6].reply = Some([status |-> 200, body |-> "noData"])
    /\ vtResult[1].errorMessage = "ServerError"


====
